---- MODULE Spec2Model ----
(***************************************************************************)
(* Point-cloud sampling and augmentation routines of                       *)
(* src/datasets/modal_3d/datasets.py as state machines.                    *)
(*                                                                         *)
(* Arrays live in a heap of buffers so that a view (point[:, :3],          *)
(* data[None, ...]) shares its buffer with the array it was taken from and *)
(* a copy (fancy indexing, np.zeros) gets a buffer of its own.             *)
(*                                                                         *)
(* Numbers are exact: an array is a record [den, val] standing for the     *)
(* values val / den, with integer val.  Floating-point rounding is not     *)
(* modelled.                                                               *)
(***************************************************************************)
EXTENDS Integers, Sequences, FiniteSets, TLC

VARIABLES
    heap,       \* buffer id -> array [den, val]
    pc,         \* position of the running call
    ret,        \* buffer id of the returned array (0: nothing returned yet)
    npGlobal,   \* draws taken from the global stream np.random (by an adapter:
                \* in this pass of its loop)
    npDistill,  \* draws taken from the distillation stream np_random (likewise)
    \* farthest_point_sample: its parameters and locals
    point, npoint, centroids, distance, farthest, i,
    input0,     \* history: the caller's array as it was when the call began
    start,      \* history: the index np.random.randint drew (-1: not drawn)
    \* the augmentation functions
    batch,      \* buffer id of the array the caller passed (batch_pc, batch_data)
    op,         \* the function that was called
    status,     \* "ok": it returned, "raised": it raised
    before,     \* history: the caller's array as it was when the call began
    drawn,      \* history: the values the call drew from its stream
    \* the dataset adapters: one __getitem__ call
    self,       \* the adapter's attributes
    cur_idx,    \* the local idx: the index of the entry being loaded
    requested,  \* history: the index __getitem__ was called with
    retries,    \* history: the retries made so far
    prev_idx,   \* history: the index tried before cur_idx (-1: none)
    data,       \* the local array `data` (ModelNet: point_set)
    pc_local,   \* Objaverse_Lvis_Colored: the local array `pc`
    stage,      \* augmentation calls made in this pass of the loop
    trace,      \* history: the stages run in this pass, each with its input and output
    rtn,        \* the Sample returned (<<>>: none)
    calls,      \* two threads in ShapeNet.__getitem__: thread -> its position and
                \* locals (<<>>: a single call is modelled)
    fwd         \* the point encoder's forward: the module's attributes, its
                \* position and its locals (<<>>: not called)

fpsVars == <<point, npoint, centroids, distance, farthest, i, input0, start>>
augVars == <<batch, op, status, before, drawn>>
itemVars == <<self, cur_idx, requested, calls, fwd, retries, prev_idx, data, pc_local, stage, trace, rtn>>
vars == <<heap, pc, ret, npGlobal, npDistill, fpsVars, augVars, itemVars>>

---------------------------------------------------------------------------
(* Bounds of the model *)

MaxN == 3        \* points per cloud
MaxCoord == 3    \* largest x coordinate, in model length units
MaxD == 4        \* columns per row (3 coordinates and the feature columns)

(* One model length unit is 5 * 10^4, so a squared distance is counted in  *)
(* units of 2.5 * 10^9 and the literal 1e10 of line 94 is 4.               *)
InitDistance == 4

---------------------------------------------------------------------------
(* Arithmetic helpers *)

RECURSIVE SumSeq(_)
SumSeq(s) == IF s = <<>> THEN 0 ELSE Head(s) + SumSeq(Tail(s))

SetMax(S) == CHOOSE m \in S : \A x \in S : x <= m
SetMin(S) == CHOOSE m \in S : \A x \in S : m <= x

Range(s) == {s[k] : k \in DOMAIN s}

(* A fresh buffer id: the heap's ids are 1..n *)
NewBuf(h) == Cardinality(DOMAIN h) + 1

Arr(v) == [den |-> 1, val |-> v]

(* no adapter call is under way *)
ItemIdle ==
    /\ self = [adapter |-> "none"]
    /\ cur_idx = -1
    /\ requested = -1
    /\ calls = <<>>
    /\ fwd = <<>>
    /\ retries = 0
    /\ prev_idx = -1
    /\ data = 0
    /\ pc_local = 0
    /\ stage = 0
    /\ trace = <<>>
    /\ rtn = <<>>

---------------------------------------------------------------------------
(* farthest_point_sample *)

(* point[:, :3]: the first three columns of every row (a view) *)
Xyz(a) == [j \in DOMAIN a |-> SubSeq(a[j], 1, 3)]

(* np.sum((xyz - centroid) ** 2, -1) for one row *)
SqDist(p, q) == SumSeq([c \in 1..3 |-> (p[c] - q[c]) * (p[c] - q[c])])

(* a plausible slip: the last index holding the maximum *)
ArgMaxLast(d) ==
    LET m == SetMax(Range(d))
    IN  SetMax({j \in DOMAIN d : d[j] = m}) - 1

(* np.argmax: the first index (0-based) holding the maximum *)
ArgMax(d) ==
    LET m == SetMax(Range(d))
    IN  SetMin({j \in DOMAIN d : d[j] = m}) - 1

(* distance = np.ones((N,)) * 1e10 *)
FpsInitialDistance(N) == [j \in 1..N |-> InitDistance]

(* a plausible slip: the running minimum overwritten by the last distances *)
UpdateDistanceOverwrite(dist, d) == dist

(* mask = dist < distance; distance[mask] = dist[mask] *)
UpdateDistance(dist, d) ==
    [j \in DOMAIN d |-> IF dist[j] < d[j] THEN dist[j] ELSE d[j]]

(* a plausible slip: the rows taken from the view xyz *)
TakeRowsXyz(a, idx) == [t \in DOMAIN idx |-> SubSeq(a[idx[t] + 1], 1, 3)]

(* point[centroids.astype(np.int32)]: fancy indexing copies whole rows *)
TakeRows(a, idx) == [t \in DOMAIN idx |-> a[idx[t] + 1]]

(* a plausible slip: the selection written back into the caller's array *)
FpsResultBufInPlace(h, p) == p

(* the buffer the result of farthest_point_sample is stored in: fancy      *)
(* indexing makes a new array, and line 103 only rebinds the local name    *)
FpsResultBuf(h, p) == NewBuf(h)

(* The inputs: N rows of D columns.  The coordinates range over a small    *)
(* grid; feature column c of row j holds a tag that names the row.         *)
Positions ==
    {<<x, 0, 0>> : x \in 0..MaxCoord} \cup {<<0, 1, 0>>, <<0, 0, 1>>}
Feature(j, c) == 10 * (c - 3) + j
WithFeatures(xyz, D) ==
    [j \in DOMAIN xyz |-> xyz[j] \o [c \in 1..(D - 3) |-> Feature(j, c + 3)]]
PointSets ==
    {WithFeatures(xyz, D) :
        xyz \in UNION {[1..N -> Positions] : N \in 1..MaxN}, D \in 3..MaxD}

InitFPS ==
    /\ \E a \in PointSets :
          /\ heap = (1 :> Arr(a))
          /\ input0 = a
          /\ npoint \in 1..Len(a)
    /\ pc = "fps_call"
    /\ point = 1
    /\ ret = 0
    /\ npGlobal = 0
    /\ npDistill = 0
    /\ centroids = <<>>
    /\ distance = <<>>
    /\ farthest = -1
    /\ i = 0
    /\ start = -1
    /\ batch = 0
    /\ op = "none"
    /\ status = "none"
    /\ before = <<>>
    /\ drawn = <<>>
    /\ ItemIdle

(* lines 91-95 *)
FpsEnter ==
    /\ pc = "fps_call"
    /\ LET N == Len(heap[point].val)
       IN  /\ centroids' = [t \in 1..npoint |-> 0]
           /\ distance' = FpsInitialDistance(N)
           /\ \E r \in 0..(N - 1) :
                 /\ farthest' = r
                 /\ start' = r
    /\ npGlobal' = npGlobal + 1
    /\ i' = 0
    /\ pc' = "fps_loop"
    /\ UNCHANGED <<heap, ret, npDistill, point, npoint, input0, augVars, itemVars>>

(* lines 96-102: one iteration of the loop *)
FpsIter ==
    /\ pc = "fps_loop"
    /\ i < npoint
    /\ LET xyz == Xyz(heap[point].val)
           centroid == xyz[farthest + 1]
           dist == [j \in DOMAIN xyz |-> SqDist(xyz[j], centroid)]
           d2 == UpdateDistance(dist, distance)
       IN  /\ centroids' = [centroids EXCEPT ![i + 1] = farthest]
           /\ distance' = d2
           /\ farthest' = ArgMax(d2)
    /\ i' = i + 1
    /\ UNCHANGED <<heap, pc, ret, npGlobal, npDistill, point, npoint, input0,
                   start, augVars, itemVars>>

(* lines 103-104 *)
FpsReturn ==
    /\ pc = "fps_loop"
    /\ i = npoint
    /\ LET b == FpsResultBuf(heap, point)
       IN  /\ heap' = (b :> Arr(TakeRows(heap[point].val, centroids))) @@ heap
           /\ ret' = b
    /\ pc' = "fps_done"
    /\ UNCHANGED <<npGlobal, npDistill, point, npoint, centroids, distance,
                   farthest, i, input0, start, augVars, itemVars>>

NextFPS == FpsEnter \/ FpsIter \/ FpsReturn

SpecFPS == InitFPS /\ [][NextFPS]_vars

---------------------------------------------------------------------------
(* Properties of farthest_point_sample *)

FpsRunning == pc \in {"fps_loop", "fps_done"}
FpsN == Len(input0)
FpsD == Len(input0[1])
Selected(t) == {centroids[k] : k \in 1..t}

(* the true minimum squared distance of row j (1-based) to the rows whose  *)
(* 0-based indices are in sel                                              *)
MinSqDist(a, j, sel) ==
    SetMin({SqDist(Xyz(a)[j], Xyz(a)[s + 1]) : s \in sel})

(* C1 (as claimed): greedy max-min.  For K < N the first selected index is *)
(* the starting index, and every later selected point has a minimum        *)
(* squared distance to the points selected before it that is >= that of    *)
(* every point not yet selected at that step.                              *)
C1_GreedyMaxMin ==
    (FpsRunning /\ npoint < FpsN) =>
        /\ (i >= 1 => centroids[1] = start)
        /\ \A t \in 2..i :
              \A j \in 1..FpsN :
                 (j - 1) \notin Selected(t - 1) =>
                    MinSqDist(input0, centroids[t] + 1, Selected(t - 1))
                        >= MinSqDist(input0, j, Selected(t - 1))

(* C2: for N rows of D >= 3 columns and 1 <= K <= N the result has exactly *)
(* K rows, each a complete row (all D columns) of the input at an index in *)
(* [0, N).                                                                 *)
C2_ReturnsKCompleteRows ==
    pc = "fps_done" =>
        /\ Len(heap[ret].val) = npoint
        /\ \A t \in 1..npoint :
              /\ centroids[t] \in 0..(FpsN - 1)
              /\ Len(heap[ret].val[t]) = FpsD
              /\ heap[ret].val[t] = input0[centroids[t] + 1]

C2_Witness ==
    /\ pc = "fps_done"
    /\ FpsD > 3
    /\ npoint >= 2
    /\ heap[ret].val /= input0

(* The selection written from scratch: the t-th selected index is the      *)
(* least index whose minimum squared distance to the earlier selections,   *)
(* cut off at the initial value of the running array, is largest.          *)
RECURSIVE GreedyIndex(_, _, _)
GreedyIndex(a, s, t) ==
    IF t = 1 THEN s
    ELSE LET prev == {GreedyIndex(a, s, k) : k \in 1..(t - 1)}
             cut(j) == LET m == MinSqDist(a, j, prev)
                       IN  IF m < InitDistance THEN m ELSE InitDistance
             best == SetMax({cut(j) : j \in DOMAIN a})
         IN  SetMin({j \in DOMAIN a : cut(j) = best}) - 1

(* C3: the selected index sequence is a function of the point set, K and   *)
(* the starting index alone (so two runs that agree on them agree on the   *)
(* sequence), and among the points sharing the maximal running minimum     *)
(* distance the one with the lowest index is selected.                     *)
C3_DeterministicLowestIndex ==
    FpsRunning =>
        /\ \A t \in 1..i : centroids[t] = GreedyIndex(input0, start, t)
        /\ i >= 1 =>
              /\ distance[farthest + 1] = SetMax(Range(distance))
              /\ \A j \in 1..FpsN :
                    distance[j] = SetMax(Range(distance)) => farthest <= j - 1

C3_Witness ==
    /\ pc = "fps_loop"
    /\ i >= 1
    /\ i < npoint
    /\ Cardinality({j \in 1..FpsN :
                      distance[j] = SetMax(Range(distance))}) >= 2
    /\ SetMax(Range(distance)) > 0
    /\ farthest > 0

(* C4 (as claimed): the running array behaves as if initialised to         *)
(* +infinity: after the first selection every point's running minimum      *)
(* distance is its squared distance to the first selected point.           *)
C4_AsIfInfinite ==
    (pc = "fps_loop" /\ i = 1) =>
        \A j \in 1..FpsN :
            distance[j] = SqDist(Xyz(input0)[j], Xyz(input0)[start + 1])

(* C5: the call leaves the caller's array as it was, and the returned      *)
(* array is storage of its own.                                            *)
C5_InputUnchanged ==
    /\ pc \in {"fps_call", "fps_loop", "fps_done"} => heap[point].val = input0
    /\ pc = "fps_done" => (ret /= point /\ ret \in DOMAIN heap)

C5_Witness ==
    /\ pc = "fps_done"
    /\ npoint = FpsN
    /\ FpsN >= 2
    /\ heap[ret].val /= heap[point].val

---------------------------------------------------------------------------
(* Exact arithmetic for the augmentation functions.  A drawn value is a    *)
(* rational [n, d] with d > 0.                                             *)

Rat(n, d) == [n |-> n, d |-> d]
RatMul(x, y) == Rat(x.n * y.n, x.d * y.d)
RatLeq(x, y) == x.n * y.d <= y.n * x.d
RatEq(x, y) == x.n * y.d = y.n * x.d

RECURSIVE Gcd(_, _)
Gcd(a, b) == IF b = 0 THEN a ELSE Gcd(b, a % b)
Lcm(a, b) == (a * b) \div Gcd(a, b)
RECURSIVE LcmSet(_)
LcmSet(S) ==
    IF S = {} THEN 1
    ELSE LET x == CHOOSE y \in S : TRUE IN Lcm(x, LcmSet(S \ {x}))

(* batch_data.shape *)
ShapeB(a) == Len(a.val)
ShapeN(a) == Len(a.val[1])
ShapeC(a) == Len(a.val[1][1])

(* the denominators of a B x N x C array of rationals *)
Dens(f) ==
    {f[b][n][c].d : b \in DOMAIN f, n \in DOMAIN f[1], c \in DOMAIN f[1][1]}

(* a * f, entry by entry, for a B x N x C array f of rationals *)
ArrTimes(a, f) ==
    LET D == LcmSet(Dens(f))
    IN  [den |-> a.den * D,
         val |-> [b \in DOMAIN a.val |-> [n \in DOMAIN a.val[b] |->
                    [c \in DOMAIN a.val[b][n] |->
                        a.val[b][n][c] * f[b][n][c].n * (D \div f[b][n][c].d)]]]]

(* a + f, entry by entry, for a B x N x C array f of rationals *)
ArrPlus(a, f) ==
    LET D == LcmSet(Dens(f))
    IN  [den |-> a.den * D,
         val |-> [b \in DOMAIN a.val |-> [n \in DOMAIN a.val[b] |->
                    [c \in DOMAIN a.val[b][n] |->
                        a.val[b][n][c] * D
                            + f[b][n][c].n * (D \div f[b][n][c].d) * a.den]]]]

(* two arrays of one shape hold the same values *)
SameValues(a, b) ==
    /\ DOMAIN a.val = DOMAIN b.val
    /\ \A k \in DOMAIN a.val :
          /\ DOMAIN a.val[k] = DOMAIN b.val[k]
          /\ \A n \in DOMAIN a.val[k] :
                /\ DOMAIN a.val[k][n] = DOMAIN b.val[k][n]
                /\ \A c \in DOMAIN a.val[k][n] :
                      a.val[k][n][c] * b.den = b.val[k][n][c] * a.den

---------------------------------------------------------------------------
(* The augmentation functions: each is called once on a batch the caller   *)
(* holds in buffer 1.                                                      *)

MaxB == 2        \* clouds per batch
MaxPts == 2      \* points per cloud
MaxC == 4        \* channels per point

(* The inputs: cloud number o of N points and C channels *)
CloudOffsets == 0..2
CloudPoint(o, n) == <<(o + n) % 3, (o * n) % 3, n - 1>>
Cloud(o, N, C) ==
    [n \in 1..N |-> CloudPoint(o, n) \o [c \in 1..(C - 3) |-> Feature(n, c + 3)]]
Batches ==
    UNION {{[b \in 1..B |-> Cloud(o[b], N, C)] : o \in [1..B -> CloudOffsets]} :
              B \in 1..MaxB, N \in 1..MaxPts, C \in 3..MaxC}

InitAug ==
    /\ \E v \in Batches :
          /\ heap = (1 :> Arr(v))
          /\ before = Arr(v)
    /\ pc = "aug_call"
    /\ batch = 1
    /\ op = "none"
    /\ status = "none"
    /\ drawn = <<>>
    /\ ret = 0
    /\ npGlobal = 0
    /\ npDistill = 0
    /\ point = 0
    /\ npoint = 0
    /\ centroids = <<>>
    /\ distance = <<>>
    /\ farthest = -1
    /\ i = 0
    /\ input0 = <<>>
    /\ start = -1
    /\ ItemIdle

(* n values are drawn from np_random (distill) or from np.random *)
Draw(distill, n) ==
    /\ npDistill' = IF distill THEN npDistill + n ELSE npDistill
    /\ npGlobal' = IF distill THEN npGlobal ELSE npGlobal + n

(* the function returns the array in buffer r, whose content is now v *)
Return(name, r, v, d) ==
    /\ heap' = (r :> v) @@ heap
    /\ ret' = r
    /\ op' = name
    /\ status' = "ok"
    /\ drawn' = d
    /\ pc' = "aug_done"
    /\ UNCHANGED <<batch, before, fpsVars, itemVars>>

(* the function raises: nothing is returned and nothing was written *)
Raise(name, d) ==
    /\ op' = name
    /\ status' = "raised"
    /\ drawn' = d
    /\ pc' = "aug_done"
    /\ UNCHANGED <<heap, ret, batch, before, fpsVars, itemVars>>

(* a plausible slip: the augmentation works on a copy made on entry *)
AugTargetBufCopy(h, b) == NewBuf(h)

(* the buffer dropout, scale and shift write to and return: the array the  *)
(* caller passed, there is no copy on entry                                *)
AugTargetBuf(h, b) == b

(* the values np.random.random() and np_random.rand() range over: 0, 1/2 *)
Uniform01 == {Rat(0, 1), Rat(1, 2)}

(* max_dropout_ratio: the default 0.875, and 2 *)
MaxDropoutRatios == {Rat(7, 8), Rat(2, 1)}

(* dropout_ratio = random() * max_dropout_ratio *)
DropoutRatio(u, max) == RatMul(u, max)

(* a plausible slip: the comparison the wrong way round *)
DropIdxInverted(v, ratio) == {n \in DOMAIN v : ~RatLeq(v[n], ratio)}

(* np.where(random((N)) <= dropout_ratio)[0], as 1-based positions *)
DropIdx(v, ratio) == {n \in DOMAIN v : RatLeq(v[n], ratio)}

(* a plausible slip: the dropped points are removed *)
RECURSIVE KeepRows(_, _, _)
KeepRows(cloud, idx, n) ==
    IF n > Len(cloud) THEN <<>>
    ELSE (IF n \in idx THEN <<>> ELSE <<cloud[n]>>) \o KeepRows(cloud, idx, n + 1)
DropoutCloudRemove(cloud, idx) == KeepRows(cloud, idx, 1)

(* a plausible slip: the dropped points are set to the last point *)
DropValueLast(cloud) == cloud[Len(cloud)]

(* batch_pc[b, 0, :] *)
DropValue(cloud) == cloud[1]

(* if len(drop_idx) > 0: batch_pc[b, drop_idx, :] = batch_pc[b, 0, :] *)
DropoutCloud(cloud, idx) ==
    [n \in DOMAIN cloud |-> IF n \in idx THEN DropValue(cloud) ELSE cloud[n]]

Dropout(name, distill) ==
    /\ pc = "aug_call"
    /\ LET a == heap[batch]
           B == ShapeB(a)
           N == ShapeN(a)
       IN  \E max \in MaxDropoutRatios, u \in [1..B -> Uniform01],
              v \in [1..B -> [1..N -> Uniform01]] :
              LET out == [b \in 1..B |->
                            DropoutCloud(a.val[b],
                                DropIdx(v[b], DropoutRatio(u[b], max)))]
              IN  /\ Return(name, AugTargetBuf(heap, batch),
                            [den |-> a.den, val |-> out],
                            [max |-> max, u |-> u, v |-> v])
                  /\ Draw(distill, B * (1 + N))

(* lines 149-156 *)
random_point_dropout == Dropout("random_point_dropout", FALSE)
(* lines 159-166 *)
random_point_dropout_distill == Dropout("random_point_dropout_distill", TRUE)

(* the values uniform(scale_low, scale_high) ranges over, for the defaults *)
(* 0.8 and 1.25                                                            *)
ScaleDraws == {Rat(4, 5), Rat(1, 1), Rat(6, 5)}

Scale(name, distill) ==
    /\ pc = "aug_call"
    /\ LET a == heap[batch]
           B == ShapeB(a)
       IN  \E scales \in [1..B -> ScaleDraws] :
              LET f == [b \in 1..B |-> [n \in 1..ShapeN(a) |->
                          [c \in 1..ShapeC(a) |-> scales[b]]]]
              IN  /\ Return(name, AugTargetBuf(heap, batch), ArrTimes(a, f),
                            [scales |-> scales])
                  /\ Draw(distill, B)

(* lines 169-180 *)
random_scale_point_cloud == Scale("random_scale_point_cloud", FALSE)
(* lines 183-194 *)
random_scale_point_cloud_distill ==
    Scale("random_scale_point_cloud_distill", TRUE)

(* the rows uniform(-shift_range, shift_range, (B, 3)) ranges over, for    *)
(* the default 0.1                                                         *)
ShiftDraws ==
    {<<Rat(0, 1), Rat(0, 1), Rat(0, 1)>>,
     <<Rat(-1, 10), Rat(1, 20), Rat(0, 1)>>,
     <<Rat(1, 20), Rat(-1, 20), Rat(-1, 10)>>}

(* batch_data[batch_index, :, :] += shifts[batch_index, :] broadcasts the  *)
(* 3 shifts over the rows, which numpy refuses unless C is 3               *)
Shift(name, distill) ==
    /\ pc = "aug_call"
    /\ LET a == heap[batch]
           B == ShapeB(a)
       IN  \E shifts \in [1..B -> ShiftDraws] :
              /\ IF ShapeC(a) = 3
                 THEN LET f == [b \in 1..B |-> [n \in 1..ShapeN(a) |->
                                  [c \in 1..3 |-> shifts[b][c]]]]
                      IN  Return(name, AugTargetBuf(heap, batch),
                                 ArrPlus(a, f), [shifts |-> shifts])
                 ELSE Raise(name, [shifts |-> shifts])
              /\ Draw(distill, B * 3)

(* lines 197-208 *)
shift_point_cloud == Shift("shift_point_cloud", FALSE)
(* lines 211-222 *)
shift_point_cloud_distill == Shift("shift_point_cloud_distill", TRUE)

(* np.clip(x, lo, hi) *)
Clip(x, lo, hi) == IF RatLeq(x, lo) THEN lo ELSE IF RatLeq(hi, x) THEN hi ELSE x

(* clip=0.05 *)
JitterClip == Rat(5, 100)

(* the values sigma * randn() ranges over *)
NoiseVals == {Rat(-7, 100), Rat(0, 1), Rat(3, 100)}

(* the arrays sigma * np.random.randn(B, N, C) ranges over: one entry v,   *)
(* the others w                                                            *)
NoiseArrays(B, N, C) ==
    {[b \in 1..B |-> [n \in 1..N |-> [c \in 1..C |->
          IF <<b, n, c>> = at THEN v ELSE w]]] :
        at \in (1..B) \X (1..N) \X (1..C), v \in NoiseVals, w \in NoiseVals}

(* lines 225-236 *)
jitter_point_cloud ==
    /\ pc = "aug_call"
    /\ LET a == heap[batch]
           B == ShapeB(a)
           N == ShapeN(a)
           C == ShapeC(a)
       IN  \E noise \in NoiseArrays(B, N, C) :
              LET jittered_data ==
                     [b \in 1..B |-> [n \in 1..N |-> [c \in 1..C |->
                         Clip(noise[b][n][c],
                              Rat(-JitterClip.n, JitterClip.d), JitterClip)]]]
              IN  /\ Return("jitter_point_cloud", NewBuf(heap),
                            ArrPlus(a, jittered_data), [noise |-> noise])
                  /\ Draw(FALSE, B * N * C)

---------------------------------------------------------------------------
(* Rotations.  Angles are whole multiples of the angle unit atan(3/4),     *)
(* whose cosine and sine are 4/5 and 3/5, so that every cosine and sine is *)
(* exact: CosSin(k) is (cos, sin) of k units as (c / d, s / d).            *)

RECURSIVE CosSin(_)
CosSin(k) ==
    IF k = 0 THEN [c |-> 1, s |-> 0, d |-> 1]
    ELSE IF k < 0
         THEN LET t == CosSin(-k) IN [c |-> t.c, s |-> -t.s, d |-> t.d]
         ELSE LET t == CosSin(k - 1)
              IN  [c |-> 4 * t.c - 3 * t.s, s |-> 3 * t.c + 4 * t.s, d |-> 5 * t.d]

(* a 3 x 3 matrix is [d, m] standing for m / d *)

(* a plausible slip: the sign of the sine lost in the last row *)
RotationMatrixSign(k) ==
    LET t == CosSin(k)
    IN  [d |-> t.d, m |-> <<<<t.c, 0, t.s>>, <<0, t.d, 0>>, <<t.s, 0, t.c>>>>]

(* lines 118-122: [[cosval, 0, sinval], [0, 1, 0], [-sinval, 0, cosval]] *)
RotationMatrix(k) ==
    LET t == CosSin(k)
    IN  [d |-> t.d, m |-> <<<<t.c, 0, t.s>>, <<0, t.d, 0>>, <<-t.s, 0, t.c>>>>]

(* lines 249-255 *)
Rx(k) ==
    LET t == CosSin(k)
    IN  [d |-> t.d, m |-> <<<<t.d, 0, 0>>, <<0, t.c, -t.s>>, <<0, t.s, t.c>>>>]
(* lines 256-262 *)
Ry(k) ==
    LET t == CosSin(k)
    IN  [d |-> t.d, m |-> <<<<t.c, 0, t.s>>, <<0, t.d, 0>>, <<-t.s, 0, t.c>>>>]
(* lines 263-269 *)
Rz(k) ==
    LET t == CosSin(k)
    IN  [d |-> t.d, m |-> <<<<t.c, -t.s, 0>>, <<t.s, t.c, 0>>, <<0, 0, t.d>>>>]

(* np.dot of two 3 x 3 matrices *)
MatMul(A, B) ==
    [d |-> A.d * B.d,
     m |-> [r \in 1..3 |-> [c \in 1..3 |->
              SumSeq([k \in 1..3 |-> A.m[r][k] * B.m[k][c]])]]]

(* angle_clip of rotate_perturbation_point_cloud, in angle units *)
angle_clip == 1

ClipInt(x, lo, hi) == IF x < lo THEN lo ELSE IF x > hi THEN hi ELSE x

(* np.clip(angle_sigma * randn(3), -angle_clip, angle_clip) *)
ClipAngles(raw) == [j \in 1..3 |-> ClipInt(raw[j], -angle_clip, angle_clip)]

(* R = np.dot(Rz, np.dot(Ry, Rx)) *)
PerturbationMatrix(angles) ==
    MatMul(Rz(angles[3]), MatMul(Ry(angles[2]), Rx(angles[1])))

RECURSIVE Flatten(_)
Flatten(rows) == IF rows = <<>> THEN <<>> ELSE Head(rows) \o Flatten(Tail(rows))

(* shape_pc.reshape((-1, 3)) is possible *)
CanReshape3(cloud) == Len(Flatten(cloud)) % 3 = 0

(* shape_pc.reshape((-1, 3)) *)
Reshape3(cloud) ==
    LET flat == Flatten(cloud)
    IN  [k \in 1..(Len(flat) \div 3) |-> SubSeq(flat, 3 * k - 2, 3 * k)]

(* rotated_data[k, ...] = x, for x of shape (M, 3) and a slot of shape     *)
(* (N, C): numpy broadcasts x into the slot or refuses                     *)
CanAssign(M, N, C) == (C = 3) /\ (M = N \/ M = 1)

(* one row times a matrix's numerators *)
RowTimes(p, m) == [c \in 1..3 |-> SumSeq([r \in 1..3 |-> p[r] * m[r][c]])]

(* the rotated batch for the matrices Ms, one per cloud *)
Rotated(a, Ms) ==
    LET D == LcmSet({Ms[b].d : b \in DOMAIN Ms})
    IN  [den |-> a.den * D,
         val |-> [b \in DOMAIN a.val |->
                    LET x == Reshape3(a.val[b])
                    IN  [n \in DOMAIN a.val[b] |->
                           LET p == RowTimes(x[IF Len(x) = 1 THEN 1 ELSE n], Ms[b].m)
                           IN  [c \in 1..3 |-> p[c] * (D \div Ms[b].d)]]]]

(* cloud 0 can be rotated and stored; every cloud has the shape of cloud 0 *)
RotateWorks(a) ==
    /\ CanReshape3(a.val[1])
    /\ CanAssign(Len(Reshape3(a.val[1])), ShapeN(a), ShapeC(a))

(* the k-th angle unit np.random.uniform() * 2 * np.pi ranges over *)
RotateDraws == 0..2

Rotate(name, distill) ==
    /\ pc = "aug_call"
    /\ LET a == heap[batch]
           B == ShapeB(a)
       IN  IF RotateWorks(a)
           THEN \E angles \in [1..B -> RotateDraws] :
                   /\ Return(name, NewBuf(heap),
                             Rotated(a, [b \in 1..B |-> RotationMatrix(angles[b])]),
                             [angles |-> angles])
                   /\ Draw(distill, B)
           ELSE \E angle \in RotateDraws :
                   /\ Raise(name, [angles |-> <<angle>>])
                   /\ Draw(distill, 1)

(* lines 107-125 *)
rotate_point_cloud == Rotate("rotate_point_cloud", FALSE)
(* lines 128-146 *)
rotate_point_cloud_distill == Rotate("rotate_point_cloud_distill", TRUE)

(* the triples angle_sigma * randn(3) ranges over, in angle units *)
AngleDraws == {<<0, 0, 0>>, <<-2, 1, 0>>, <<1, 0, 2>>, <<2, -1, -2>>}

RotatePerturbation(name, distill) ==
    /\ pc = "aug_call"
    /\ LET a == heap[batch]
           B == ShapeB(a)
       IN  IF RotateWorks(a)
           THEN \E raw \in [1..B -> AngleDraws] :
                   /\ Return(name, NewBuf(heap),
                             Rotated(a, [b \in 1..B |->
                                 PerturbationMatrix(ClipAngles(raw[b]))]),
                             [raw |-> raw])
                   /\ Draw(distill, B * 3)
           ELSE \E raw \in AngleDraws :
                   /\ Raise(name, [raw |-> <<raw>>])
                   /\ Draw(distill, 3)

(* lines 239-273 *)
rotate_perturbation_point_cloud ==
    RotatePerturbation("rotate_perturbation_point_cloud", FALSE)
(* lines 276-312 *)
rotate_perturbation_point_cloud_distill ==
    RotatePerturbation("rotate_perturbation_point_cloud_distill", TRUE)

NextAug ==
    \/ random_point_dropout
    \/ random_point_dropout_distill
    \/ random_scale_point_cloud
    \/ random_scale_point_cloud_distill
    \/ shift_point_cloud
    \/ shift_point_cloud_distill
    \/ jitter_point_cloud
    \/ rotate_point_cloud
    \/ rotate_point_cloud_distill
    \/ rotate_perturbation_point_cloud
    \/ rotate_perturbation_point_cloud_distill

SpecAug == InitAug /\ [][NextAug]_vars

---------------------------------------------------------------------------
(* Properties of the augmentation functions *)

AugDone == pc = "aug_done"
DropoutOps == {"random_point_dropout", "random_point_dropout_distill"}
ScaleOps == {"random_scale_point_cloud", "random_scale_point_cloud_distill"}
ShiftOps == {"shift_point_cloud", "shift_point_cloud_distill"}
RotateOps == {"rotate_point_cloud", "rotate_point_cloud_distill"}
PerturbationOps ==
    {"rotate_perturbation_point_cloud", "rotate_perturbation_point_cloud_distill"}
InPlaceOps == DropoutOps \cup ScaleOps \cup ShiftOps

(* the points of cloud b the call selected for dropping *)
DroppedIn(b) == DropIdx(drawn.v[b], DropoutRatio(drawn.u[b], drawn.max))
RatioOf(b) == DropoutRatio(drawn.u[b], drawn.max)

(* the array holds what dropout leaves of the array `was` *)
IsDroppedFrom(now, was) ==
    /\ now.den = was.den
    /\ Len(now.val) = Len(was.val)
    /\ \A b \in DOMAIN was.val :
          /\ Len(now.val[b]) = Len(was.val[b])
          /\ \A n \in DOMAIN was.val[b] :
                now.val[b][n] =
                    IF n \in DroppedIn(b) THEN was.val[b][1] ELSE was.val[b][n]

(* C6: after random_point_dropout and random_point_dropout_distill every   *)
(* point selected for dropping in cloud b equals the point 0 cloud b had   *)
(* before the call, every other point is unchanged, and the number of      *)
(* points per cloud is unchanged.                                          *)
C6_DropoutValueLaw ==
    (AugDone /\ op \in DropoutOps) =>
        (status = "ok" /\ IsDroppedFrom(heap[ret], before))

C6_Witness ==
    /\ AugDone
    /\ op = "random_point_dropout_distill"
    /\ ShapeB(before) >= 2
    /\ \E b \in DOMAIN before.val :
          /\ 2 \in DroppedIn(b)
          /\ before.val[b][2] /= before.val[b][1]
          /\ heap[ret].val[b][2] = before.val[b][1]
    /\ \E b \in DOMAIN before.val : 2 \notin DroppedIn(b)

(* C7: when the dropout ratio of a cloud is 1.0 every point of the cloud   *)
(* is dropped: all its points equal the cloud's original first point.      *)
C7_RatioOneDropsAll ==
    (AugDone /\ op \in DropoutOps) =>
        \A b \in DOMAIN before.val :
            RatEq(RatioOf(b), Rat(1, 1)) =>
                \A n \in DOMAIN before.val[b] :
                    heap[ret].val[b][n] = before.val[b][1]

C7_Witness ==
    /\ AugDone
    /\ op = "random_point_dropout"
    /\ \E b \in DOMAIN before.val :
          /\ RatEq(RatioOf(b), Rat(1, 1))
          /\ Len(before.val[b]) >= 2
          /\ drawn.v[b][2] = Rat(1, 2)
          /\ before.val[b][2] /= before.val[b][1]
          /\ heap[ret].val[b][2] = before.val[b][1]

(* C8 (as claimed): dropout, scale, shift and their distill variants work  *)
(* on a defensive copy: after the call the caller's array holds the values *)
(* it held before the call.                                                *)
C8_CallerArrayUnchanged ==
    (AugDone /\ op \in InPlaceOps) => SameValues(heap[batch], before)

(* every entry of cloud b of `now` is that of `was` times scales[b] *)
IsScaledFrom(now, was) ==
    \A b \in DOMAIN was.val : \A n \in DOMAIN was.val[b] :
        \A c \in DOMAIN was.val[b][n] :
            now.val[b][n][c] * drawn.scales[b].d * was.den
                = was.val[b][n][c] * drawn.scales[b].n * now.den

(* every entry of cloud b of `now` is that of `was` plus shifts[b][c] *)
IsShiftedFrom(now, was) ==
    \A b \in DOMAIN was.val : \A n \in DOMAIN was.val[b] :
        \A c \in DOMAIN was.val[b][n] :
            now.val[b][n][c] * drawn.shifts[b][c].d * was.den
                = (was.val[b][n][c] * drawn.shifts[b][c].d
                     + drawn.shifts[b][c].n * was.den) * now.den

(* C8 (amended): dropout, scale, shift and their distill variants make no  *)
(* copy: a call that returns has written the augmented values into the     *)
(* caller's array and returns that same array; a call that raises has      *)
(* written nothing.                                                        *)
C8_WritesThrough ==
    (AugDone /\ op \in InPlaceOps) =>
        /\ status = "ok" =>
              /\ ret = batch
              /\ DOMAIN heap = {batch}
              /\ op \in DropoutOps => IsDroppedFrom(heap[batch], before)
              /\ op \in ScaleOps => IsScaledFrom(heap[batch], before)
              /\ op \in ShiftOps => IsShiftedFrom(heap[batch], before)
        /\ status = "raised" => (ret = 0 /\ heap[batch] = before)

C8_Witness ==
    /\ AugDone
    /\ op = "random_scale_point_cloud"
    /\ status = "ok"
    /\ ret = batch
    /\ drawn.scales[1] = Rat(4, 5)
    /\ ~SameValues(heap[batch], before)

SameShape(a, b) ==
    /\ Len(a.val) = Len(b.val)
    /\ \A k \in DOMAIN b.val :
          /\ Len(a.val[k]) = Len(b.val[k])
          /\ \A n \in DOMAIN b.val[k] : Len(a.val[k][n]) = Len(b.val[k][n])

(* C9 (as claimed): every augmentation function maps a batch of shape      *)
(* count x points x channels, for every channel count >= 3, to a batch of  *)
(* the same shape without failing.                                         *)
C9_ShapePreserved ==
    AugDone => (status = "ok" /\ SameShape(heap[ret], before))

(* C9 (amended): for 3 channels every augmentation function returns a      *)
(* batch of the shape it was given; for more than 3 channels dropout,      *)
(* scale and jitter still do, while shift, rotate and rotate_perturbation  *)
(* raise and return nothing.                                               *)
C9_ShapePreservedThreeChannels ==
    AugDone =>
        IF ShapeC(before) = 3 \/ op \in DropoutOps \cup ScaleOps \cup {"jitter_point_cloud"}
        THEN status = "ok" /\ SameShape(heap[ret], before)
        ELSE status = "raised" /\ ret = 0

C9_Witness ==
    /\ AugDone
    /\ op = "rotate_perturbation_point_cloud"
    /\ status = "ok"
    /\ ShapeB(before) >= 2
    /\ ShapeN(before) >= 2
    /\ SameShape(heap[ret], before)
    /\ ~SameValues(heap[ret], before)

Transpose(R) == [d |-> R.d, m |-> [r \in 1..3 |-> [c \in 1..3 |-> R.m[c][r]]]]
Scaled(k) == [r \in 1..3 |-> [c \in 1..3 |-> IF r = c THEN k ELSE 0]]
Det(m) ==
    m[1][1] * (m[2][2] * m[3][3] - m[2][3] * m[3][2])
        - m[1][2] * (m[2][1] * m[3][3] - m[2][3] * m[3][1])
        + m[1][3] * (m[2][1] * m[3][2] - m[2][2] * m[3][1])

(* R * R^T = I and det R = 1, for R = m / d *)
IsRotation(R) ==
    /\ MatMul(R, Transpose(R)).m = Scaled(R.d * R.d)
    /\ Det(R.m) = R.d * R.d * R.d

SqNorm(p) == p[1] * p[1] + p[2] * p[2] + p[3] * p[3]

(* the matrix the call built for cloud b *)
MatrixOf(b) ==
    IF op \in RotateOps THEN RotationMatrix(drawn.angles[b])
    ELSE PerturbationMatrix(ClipAngles(drawn.raw[b]))

(* C10: the matrices built by rotate_point_cloud and by                    *)
(* rotate_perturbation_point_cloud (Rz * Ry * Rx, each angle clipped to    *)
(* [-angle_clip, angle_clip]) are orthogonal with determinant 1, every     *)
(* point keeps its squared norm, and rotate_point_cloud leaves every       *)
(* point's second coordinate as it was.                                    *)
C10_RotationsOrthogonal ==
    (AugDone /\ status = "ok" /\ op \in RotateOps \cup PerturbationOps) =>
        \A b \in DOMAIN before.val :
            /\ IsRotation(MatrixOf(b))
            /\ op \in PerturbationOps =>
                  \A j \in 1..3 :
                      /\ -angle_clip <= ClipAngles(drawn.raw[b])[j]
                      /\ ClipAngles(drawn.raw[b])[j] <= angle_clip
            /\ \A n \in DOMAIN before.val[b] :
                  /\ SqNorm(heap[ret].val[b][n]) * before.den * before.den
                        = SqNorm(before.val[b][n]) * heap[ret].den * heap[ret].den
                  /\ op \in RotateOps =>
                        heap[ret].val[b][n][2] * before.den
                            = before.val[b][n][2] * heap[ret].den

C10_Witness ==
    /\ AugDone
    /\ status = "ok"
    /\ op = "rotate_perturbation_point_cloud"
    /\ \E b \in DOMAIN before.val :
          /\ drawn.raw[b] = <<2, -1, -2>>
          /\ MatrixOf(b).d = 125
          /\ \E n \in DOMAIN before.val[b] :
                /\ SqNorm(before.val[b][n]) > 0
                /\ heap[ret].val[b][n] /= [c \in 1..3 |-> before.val[b][n][c] * 125]

---------------------------------------------------------------------------
(* The normalisations: pc_normalize, normalize_pc, ShapeNet.pc_norm and    *)
(* Objaverse_Lvis_Colored.pc_norm.                                         *)
(*                                                                         *)
(* The maximum norm is a square root, so an array of this part is a record *)
(* [den, rad, val] standing for the values val / (den * sqrt(rad)).  A     *)
(* value x / 0 with x = 0 is NaN: an array with den * rad = 0 is all NaN.  *)

SArr(den, rad, val) == [den |-> den, rad |-> rad, val |-> val]

IsNaN(a) == a.den = 0 \/ a.rad = 0

(* np.mean(pc, axis=0) times the number of rows: the column sums *)
ColSums(v) == [c \in DOMAIN v[1] |-> SumSeq([n \in DOMAIN v |-> v[n][c]])]

(* pc - np.mean(pc, axis=0) *)
Centred(a) ==
    LET N == Len(a.val)
        sums == ColSums(a.val)
    IN  SArr(a.den * N, a.rad,
             [n \in DOMAIN a.val |-> [c \in DOMAIN a.val[n] |->
                 N * a.val[n][c] - sums[c]]])

(* np.sum(pc ** 2, axis=1) of the numerators *)
RowSq(v) == [n \in DOMAIN v |-> SumSeq([c \in DOMAIN v[n] |-> v[n][c] * v[n][c]])]

(* the square of np.max(np.sqrt(np.sum(pc ** 2, axis=1))), of the          *)
(* numerators                                                              *)
MaxNormSq(v) == SetMax(Range(RowSq(v)))

(* a plausible slip: divided by the largest coordinate instead of the      *)
(* largest norm                                                            *)
DivideByMaxCoord(a) ==
    IF IsNaN(a) THEN a
    ELSE SArr(1, SetMax({a.val[n][c] * a.val[n][c] :
                            n \in DOMAIN a.val, c \in DOMAIN a.val[1]}), a.val)

(* pc / m for m = sqrt(Q) / (den * sqrt(rad)), the largest norm of pc:     *)
(* val / sqrt(Q).  Q = 0 gives 0 / 0 in every entry.                       *)
DivideByMaxNorm(a) ==
    IF IsNaN(a) THEN a ELSE SArr(1, MaxNormSq(a.val), a.val)

(* lines 66-71 *)
pc_normalize(a) == DivideByMaxNorm(Centred(a))

(* lines 945-951 *)
ShapeNet_pc_norm(a) == DivideByMaxNorm(Centred(a))

(* lines 696-702 *)
Objaverse_pc_norm(a) == DivideByMaxNorm(Centred(a))

(* 1e-6 of line 76 is 1 / EpsilonInv *)
EpsilonInv == 1000000

(* np.max(np.linalg.norm(pc, axis=1)) < 1e-6 for the largest norm          *)
(* sqrt(Q) / (den * sqrt(rad)): EpsilonInv^2 * Q < den^2 * rad, computed   *)
(* without leaving 32 bits.  A comparison with NaN is false.               *)
BelowEpsilon(a) ==
    IF IsNaN(a) THEN FALSE
    ELSE LET g == Gcd(EpsilonInv, a.den)
             e == EpsilonInv \div g
             d == a.den \div g
         IN  MaxNormSq(a.val) <= ((d * d * a.rad - 1) \div e) \div e

(* np.zeros_like(pc) *)
ZerosLike(a) ==
    SArr(1, 1, [n \in DOMAIN a.val |-> [c \in DOMAIN a.val[n] |-> 0]])

(* lines 73-80 *)
normalize_pc(a) ==
    LET pc1 == Centred(a)
    IN  IF BelowEpsilon(pc1) THEN ZerosLike(pc1) ELSE DivideByMaxNorm(pc1)

MaxApply == 2    \* normalisations applied one after the other

(* The inputs: N rows of 3 coordinates, in units of 1 and of 1e-6 *)
NormPositions ==
    {<<0, 0, 0>>, <<1, 0, 0>>, <<4, 0, 0>>, <<0, 3, 0>>, <<2, 2, 1>>}
NormDens == {1, EpsilonInv}
NormClouds ==
    {SArr(d, 1, v) :
        d \in NormDens, v \in UNION {[1..N -> NormPositions] : N \in 1..MaxN}}

InitNorm ==
    /\ \E a \in NormClouds :
          /\ heap = (1 :> a)
          /\ before = a
    /\ pc = "norm_call"
    /\ ret = 1
    /\ batch = 0
    /\ op = "none"
    /\ status = "none"
    /\ drawn = <<>>
    /\ npGlobal = 0
    /\ npDistill = 0
    /\ point = 0
    /\ npoint = 0
    /\ centroids = <<>>
    /\ distance = <<>>
    /\ farthest = -1
    /\ i = 0
    /\ input0 = <<>>
    /\ start = -1
    /\ ItemIdle

(* one call: out is the function's result on the array the last call      *)
(* returned (on the raw cloud at first); the result is a new array         *)
Normalize(name, out) ==
    /\ pc \in {"norm_call", "norm_done"}
    /\ Len(drawn) < MaxApply
    /\ LET b == NewBuf(heap)
       IN  /\ heap' = (b :> out) @@ heap
           /\ ret' = b
    /\ batch' = ret
    /\ before' = heap[ret]
    /\ op' = name
    /\ status' = "ok"
    /\ drawn' = Append(drawn, name)
    /\ pc' = "norm_done"
    /\ UNCHANGED <<npGlobal, npDistill, fpsVars, itemVars>>

CallPcNormalize == Normalize("pc_normalize", pc_normalize(heap[ret]))
CallNormalizePc == Normalize("normalize_pc", normalize_pc(heap[ret]))
CallShapeNetPcNorm == Normalize("ShapeNet.pc_norm", ShapeNet_pc_norm(heap[ret]))
CallObjaversePcNorm == Normalize("Objaverse_Lvis_Colored.pc_norm", Objaverse_pc_norm(heap[ret]))

NextNorm ==
    \/ CallPcNormalize
    \/ CallNormalizePc
    \/ CallShapeNetPcNorm
    \/ CallObjaversePcNorm

SpecNorm == InitNorm /\ [][NextNorm]_vars

---------------------------------------------------------------------------
(* Properties of the normalisations *)

NormDone == pc = "norm_done"

(* the normalisations the adapters apply *)
AdapterNorms ==
    {"pc_normalize", "ShapeNet.pc_norm", "Objaverse_Lvis_Colored.pc_norm"}

(* the cloud is degenerate: after centring its largest norm is below 1e-6  *)
(* (a single point and coincident points have largest norm 0)              *)
Degenerate(a) == ~IsNaN(a) /\ BelowEpsilon(Centred(a))

IsAllZero(a) ==
    /\ ~IsNaN(a)
    /\ \A n \in DOMAIN a.val : \A c \in DOMAIN a.val[n] : a.val[n][c] = 0

SameShape2(a, b) ==
    /\ Len(a.val) = Len(b.val)
    /\ \A n \in DOMAIN b.val : Len(a.val[n]) = Len(b.val[n])

(* C11 (as claimed): pc_normalize, ShapeNet.pc_norm and                    *)
(* Objaverse_Lvis_Colored.pc_norm map a degenerate cloud (a single point,  *)
(* coincident points, largest norm after centring below epsilon) to an     *)
(* all-zero cloud of the same shape, without a division by zero.           *)
C11_DegenerateToZero ==
    (NormDone /\ op \in AdapterNorms /\ Degenerate(before)) =>
        (IsAllZero(heap[ret]) /\ SameShape2(heap[ret], before))

(* x = val / (den * sqrt(rad)) entry by entry: equal signs, equal squares *)
Sign(x) == IF x > 0 THEN 1 ELSE IF x < 0 THEN -1 ELSE 0
SameSurds(a, b) ==
    /\ ~IsNaN(a) /\ ~IsNaN(b)
    /\ SameShape2(a, b)
    /\ \A n \in DOMAIN a.val : \A c \in DOMAIN a.val[n] :
          /\ Sign(a.val[n][c]) = Sign(b.val[n][c])
          /\ a.val[n][c] * a.val[n][c] * b.den * b.den * b.rad
                = b.val[n][c] * b.val[n][c] * a.den * a.den * a.rad

CentroidZero(a) == \A c \in DOMAIN a.val[1] : ColSums(a.val)[c] = 0
MaxNormOne(a) == MaxNormSq(a.val) = a.den * a.den * a.rad

(* C12: on a non-degenerate cloud a normalisation returns a cloud with     *)
(* centroid zero and largest norm 1, and applying the normalisation to     *)
(* that cloud returns it unchanged.                                        *)
C12_Idempotent ==
    (NormDone /\ ~IsNaN(before) /\ ~Degenerate(before)) =>
        /\ CentroidZero(heap[ret])
        /\ MaxNormOne(heap[ret])
        /\ (Len(drawn) = 2 /\ drawn[1] = drawn[2]) => SameSurds(heap[ret], before)

C12_Witness ==
    /\ NormDone
    /\ drawn = <<"normalize_pc", "normalize_pc">>
    /\ Len(before.val) = 3
    /\ before.rad = 29
    /\ heap[ret] /= before
    /\ \E c \in 1..3 : ColSums(heap[1].val)[c] /= 0

---------------------------------------------------------------------------
(* The dataset adapters: one __getitem__ call on ShapeNet,                 *)
(* Objaverse_Lvis_Colored, ModelNet or ScanObjectNN.                       *)
(*                                                                         *)
(* A cloud is held in the heap as its rows, [den, val]; whether a name     *)
(* refers to it as N x C or, after data[None, ...], as 1 x N x C does not   *)
(* change the buffer.  The raw clouds lie on a line, so that the largest   *)
(* norm of a centred cloud is rational.                                    *)

MaxFiles == 2    \* entries of the dataset
MaxNpoints == 2  \* the configured target count npoints
MaxRetries == 2  \* retries the model follows

(* the file a path names: paths are numbers, file p holds (p mod MaxN) + 1 *)
(* points (x, 1, 2), on the length scale of farthest_point_sample          *)
RawX(j) == (j * (9 - j)) \div 2 - 4
RawCloud(p) == [j \in 1..((p % MaxN) + 1) |-> <<RawX(j), 1, 2>>]

(* a plausible slip: the cloud of the first file whatever the entry *)
IO_getFirstFile(p) == Arr(RawCloud(0))

(* IO.get(...).astype(np.float32) *)
IO_get(p) == Arr(RawCloud(p))

(* self.file_list of n entries, the first file being number o *)
FileList(n, o) == [k \in 1..n |-> [file_path |-> o + k - 1]]

(* np.arange(n) *)
Arange(n) == [k \in 1..n |-> k - 1]

(* config of ShapeNet.__init__: subset, args.multi_modal_distill,          *)
(* args.text_embed_dim == 1536, with_color, use_height                     *)
ShapeNetConfigs ==
    {[subset |-> "train", multi_modal_distill |-> TRUE, text1536 |-> TRUE,
      with_color |-> FALSE, use_height |-> FALSE],
     [subset |-> "train", multi_modal_distill |-> FALSE, text1536 |-> FALSE,
      with_color |-> TRUE, use_height |-> FALSE],
     [subset |-> "train", multi_modal_distill |-> TRUE, text1536 |-> FALSE,
      with_color |-> TRUE, use_height |-> TRUE],
     [subset |-> "test", multi_modal_distill |-> TRUE, text1536 |-> TRUE,
      with_color |-> FALSE, use_height |-> TRUE],
     [subset |-> "test", multi_modal_distill |-> FALSE, text1536 |-> FALSE,
      with_color |-> FALSE, use_height |-> FALSE]}

(* lines 863-943 *)
ShapeNet_init(config, npoints, n, o) ==
    [adapter |-> "ShapeNet",
     subset |-> config.subset,
     npoints |-> npoints,
     sample_points_num |-> npoints,
     file_list |-> FileList(n, o),
     permutation |-> Arange(npoints),
     uniform |-> TRUE,
     augment |-> TRUE,
     use_height |-> config.use_height,
     text1536 |-> config.text1536,
     distill |-> (config.subset = "train" /\ config.multi_modal_distill),
     with_color |-> config.with_color,
     gravity_dim |-> -1]

(* the other parts of the model hold still during an adapter call *)
AugIdle ==
    /\ batch = 0
    /\ before = <<>>
    /\ drawn = <<>>

FpsIdle ==
    /\ point = 0
    /\ npoint = 0
    /\ centroids = <<>>
    /\ distance = <<>>
    /\ farthest = -1
    /\ i = 0
    /\ input0 = <<>>
    /\ start = -1

(* the call dataset[index] begins, stored holding the arrays the adapter   *)
(* keeps                                                                   *)
ItemCall(adapter, index, stored) ==
    /\ self = adapter
    /\ cur_idx = index
    /\ requested = index
    /\ calls = <<>>
    /\ fwd = <<>>
    /\ heap = stored
    /\ pc = "call"
    /\ ret = 0
    /\ npGlobal = 0
    /\ npDistill = 0
    /\ op = "none"
    /\ status = "none"
    /\ retries = 0
    /\ prev_idx = -1
    /\ data = 0
    /\ pc_local = 0
    /\ stage = 0
    /\ trace = <<>>
    /\ rtn = <<>>
    /\ AugIdle
    /\ FpsIdle

InitShapeNet ==
    \E config \in ShapeNetConfigs, npoints \in 1..MaxNpoints, n \in 1..MaxFiles :
       \E index \in 0..(n - 1) :
          ItemCall(ShapeNet_init(config, npoints, n, n - 1), index, <<>>)

(* the call raises: the exception leaves __getitem__ *)
ItemRaise(what) ==
    /\ pc' = "raised"
    /\ status' = "raised"
    /\ op' = what

(* one entry of the trace: the stage, the function that ran it, the cloud  *)
(* it was given, the cloud it returned, the stream it drew from            *)
Ran(st, fn, in, out, stream) ==
    [stage |-> st, fn |-> fn, in |-> in, out |-> out, stream |-> stream]

StreamOf(distill) == IF distill THEN "np_random" ELSE "np.random"

(* lines 967-971: sample = self.file_list[idx]; data = IO.get(...) *)
ShapeNetLoad ==
    /\ pc = "call"
    /\ self.adapter = "ShapeNet"
    /\ \/ /\ ItemRaise("IO.get")
          /\ UNCHANGED <<heap, data>>
       \/ /\ heap' = (1 :> IO_get(self.file_list[cur_idx + 1].file_path))
          /\ data' = 1
          /\ pc' = "sn_sample"
          /\ UNCHANGED <<op, status>>
    /\ stage' = 0
    /\ trace' = <<>>
    /\ UNCHANGED <<ret, npGlobal, npDistill, fpsVars, batch, before, drawn,
                   self, cur_idx, requested, calls, fwd, retries, prev_idx, pc_local, rtn>>

(* a plausible slip: a draw with replacement in place of a shuffle *)
ShufflesWithReplacement(p) == [DOMAIN p -> Range(p)]

(* the orders shuffle can leave the array p in *)
Shuffles(p) == {q \in [DOMAIN p -> Range(p)] : Range(q) = Range(p)}

(* shuffle draws one number per element but the first *)
ShuffleDraws(p) == IF Len(p) = 0 THEN 0 ELSE Len(p) - 1

(* self.permutation[:num] *)
FirstNum(p, num) == SubSeq(p, 1, IF num < Len(p) THEN num ELSE Len(p))

(* pc[index]: numpy raises IndexError for an index that is not a row *)
CanTakeRows(a, index) == \A t \in DOMAIN index : index[t] + 1 \in DOMAIN a

(* the frame of the steps that leave the retry loop's variables alone *)
SameEntry == UNCHANGED <<cur_idx, requested, calls, fwd, retries, prev_idx, rtn, batch, before, drawn>>

(* lines 973-976: the sampling stage.  farthest_point_sample is entered    *)
(* when sample_points_num < data.shape[0], random_sample (lines 953-959)   *)
(* runs otherwise.                                                         *)
ShapeNetSample ==
    /\ pc = "sn_sample"
    /\ LET a == heap[data]
           N == Len(a.val)
       IN  IF self.uniform /\ self.sample_points_num < N
           THEN /\ point' = data
                /\ npoint' = self.sample_points_num
                /\ input0' = a.val
                /\ centroids' = <<>>
                /\ distance' = <<>>
                /\ farthest' = -1
                /\ i' = 0
                /\ start' = -1
                /\ pc' = "fps_call"
                /\ UNCHANGED <<heap, data, self, trace, npGlobal, npDistill,
                               op, status>>
           ELSE /\ \E q \in Shuffles(self.permutation) :
                      LET index == FirstNum(q, self.sample_points_num)
                          b == NewBuf(heap)
                      IN  /\ self' = [self EXCEPT !.permutation = q]
                          /\ IF CanTakeRows(a.val, index)
                             THEN /\ heap' = (b :> Arr(TakeRows(a.val, index))) @@ heap
                                  /\ data' = b
                                  /\ trace' = <<Ran("sample", "random_sample", a,
                                                    Arr(TakeRows(a.val, index)),
                                                    StreamOf(self.distill))>>
                                  /\ pc' = "sn_norm"
                                  /\ UNCHANGED <<op, status>>
                             ELSE /\ ItemRaise("random_sample")
                                  /\ UNCHANGED <<heap, data, trace>>
                /\ Draw(self.distill, ShuffleDraws(self.permutation))
                /\ UNCHANGED fpsVars
    /\ UNCHANGED <<ret, pc_local, stage>>
    /\ SameEntry

(* line 974: data = farthest_point_sample(...) has returned *)
ShapeNetSampled ==
    /\ pc = "fps_done"
    /\ self.adapter = "ShapeNet"
    /\ data' = ret
    /\ trace' = <<Ran("sample", "farthest_point_sample", heap[point], heap[ret],
                      "np.random")>>
    /\ pc' = "sn_norm"
    /\ UNCHANGED <<heap, ret, npGlobal, npDistill, fpsVars, op, status, self,
                   pc_local, stage>>
    /\ SameEntry

(* the square root of a square *)
SqrtExact(q) == CHOOSE r \in 0..q : r * r = q

(* val / (den * sqrt(rad)) for a square rad: val / (den * r); 0 / 0 is NaN *)
Rational(a) == [den |-> a.den * SqrtExact(a.rad), val |-> a.val]

(* the array as val / (den * sqrt(1)) *)
Surd(a) == SArr(a.den, 1, a.val)

(* the numbers reduced to lowest terms *)
GcdAbs(x, y) == Gcd(IF x < 0 THEN -x ELSE x, IF y < 0 THEN -y ELSE y)
RECURSIVE GcdSeq(_)
GcdSeq(q) == IF q = <<>> THEN 0 ELSE GcdAbs(Head(q), GcdSeq(Tail(q)))
Lowest(a) ==
    LET g == GcdAbs(a.den, GcdSeq(Flatten(a.val)))
    IN  IF g = 0 THEN a
        ELSE [den |-> a.den \div g,
              val |-> [n \in DOMAIN a.val |-> [c \in DOMAIN a.val[n] |->
                          a.val[n][c] \div g]]]

(* line 977: data = self.pc_norm(data) *)
ShapeNetNorm ==
    /\ pc = "sn_norm"
    /\ LET a == heap[data]
           out == Lowest(Rational(ShapeNet_pc_norm(Surd(a))))
           b == NewBuf(heap)
       IN  /\ heap' = (b :> out) @@ heap
           /\ data' = b
           /\ trace' = Append(trace, Ran("normalize", "pc_norm", a, out, "none"))
    /\ pc' = "sn_augment"
    /\ UNCHANGED <<ret, npGlobal, npDistill, fpsVars, op, status, self,
                   pc_local, stage>>
    /\ SameEntry

(* max_dropout_ratio=0.875, the default the adapters call dropout with *)
DefaultMaxDropoutRatio == Rat(7, 8)

DistillFns ==
    {"random_point_dropout_distill", "random_scale_point_cloud_distill",
     "shift_point_cloud_distill", "rotate_perturbation_point_cloud_distill",
     "rotate_point_cloud_distill"}

(* the values the draws of an adapter's pipeline range over *)
PipelineUniformRows(N) ==
    {[n \in 1..N |-> Rat(1, 2)], [n \in 1..N |-> IF n = N THEN Rat(0, 1) ELSE Rat(1, 2)]}
PipelineScaleDraws == {Rat(4, 5), Rat(6, 5)}
PipelineShiftDraws ==
    {<<Rat(0, 1), Rat(0, 1), Rat(0, 1)>>, <<Rat(-1, 10), Rat(1, 20), Rat(0, 1)>>}
PipelineAngleDraws == {<<0, 0, 0>>, <<2, -1, -2>>}
PipelineRotateDraws == {0, 1}

(* the stage of the pipeline a function performs *)
StageOf(fn) ==
    IF fn \in DropoutOps THEN "dropout"
    ELSE IF fn \in ScaleOps THEN "scale"
    ELSE IF fn \in ShiftOps THEN "shift"
    ELSE IF fn \in PerturbationOps THEN "perturbation"
    ELSE "rotation"

(* What a call fn(a) on the batch a can do: [ok, inplace, draws, out].     *)
(* Dropout, scale and shift write to a and return it; the rotations return *)
(* a new array; shift and the rotations raise unless a has 3 channels.     *)
AugOutcomes(fn, a) ==
    LET B == ShapeB(a)
        N == ShapeN(a)
        Done(inplace, draws, out) ==
            [ok |-> TRUE, inplace |-> inplace, draws |-> draws, out |-> out]
        Failed(draws) ==
            [ok |-> FALSE, inplace |-> FALSE, draws |-> draws, out |-> a]
    IN  IF fn \in DropoutOps
        THEN {Done(TRUE, B * (1 + N),
                   [den |-> a.den,
                    val |-> [b \in 1..B |->
                       DropoutCloud(a.val[b],
                           DropIdx(v[b], DropoutRatio(u[b], DefaultMaxDropoutRatio)))]]) :
                 u \in [1..B -> Uniform01], v \in [1..B -> PipelineUniformRows(N)]}
        ELSE IF fn \in ScaleOps
        THEN {Done(TRUE, B,
                   ArrTimes(a, [b \in 1..B |-> [n \in 1..N |->
                                   [c \in 1..ShapeC(a) |-> scales[b]]]])) :
                 scales \in [1..B -> PipelineScaleDraws]}
        ELSE IF fn \in ShiftOps
        THEN IF ShapeC(a) = 3
             THEN {Done(TRUE, B * 3,
                        ArrPlus(a, [b \in 1..B |-> [n \in 1..N |->
                                       [c \in 1..3 |-> shifts[b][c]]]])) :
                      shifts \in [1..B -> PipelineShiftDraws]}
             ELSE {Failed(B * 3)}
        ELSE IF fn \in PerturbationOps
        THEN IF RotateWorks(a)
             THEN {Done(FALSE, B * 3,
                        Rotated(a, [b \in 1..B |->
                                       PerturbationMatrix(ClipAngles(raw[b]))])) :
                      raw \in [1..B -> PipelineAngleDraws]}
             ELSE {Failed(3)}
        ELSE IF RotateWorks(a)
             THEN {Done(FALSE, B,
                        Rotated(a, [b \in 1..B |-> RotationMatrix(angles[b])])) :
                      angles \in [1..B -> PipelineRotateDraws]}
             ELSE {Failed(1)}

(* a plausible slip: scale and shift called the other way round *)
ShapeNetPipelineSwapped(distill) ==
    IF distill
    THEN <<"random_point_dropout_distill", "shift_point_cloud_distill",
           "random_scale_point_cloud_distill",
           "rotate_perturbation_point_cloud_distill", "rotate_point_cloud">>
    ELSE <<"random_point_dropout", "shift_point_cloud",
           "random_scale_point_cloud", "rotate_perturbation_point_cloud",
           "rotate_point_cloud">>

(* lines 981-985 and 988-992: the calls of the two branches, in order *)
ShapeNetPipeline(distill) ==
    IF distill
    THEN <<"random_point_dropout_distill", "random_scale_point_cloud_distill",
           "shift_point_cloud_distill",
           "rotate_perturbation_point_cloud_distill", "rotate_point_cloud">>
    ELSE <<"random_point_dropout", "random_scale_point_cloud",
           "shift_point_cloud", "rotate_perturbation_point_cloud",
           "rotate_point_cloud">>

(* data[None, ...]: the cloud as a batch of one *)
AsBatch(a) == [den |-> a.den, val |-> <<a.val>>]
(* the one cloud of a batch of one *)
OnlyCloud(a) == [den |-> a.den, val |-> a.val[1]]

(* lines 979-985 and 987-992: the next call of the pipeline *)
ShapeNetAugment ==
    /\ pc = "sn_augment"
    /\ self.augment
    /\ stage < Len(ShapeNetPipeline(self.distill))
    /\ LET fn == ShapeNetPipeline(self.distill)[stage + 1]
           a == heap[data]
       IN  \E r \in AugOutcomes(fn, AsBatch(a)) :
              /\ IF r.ok
                 THEN LET out == Lowest(OnlyCloud(r.out))
                          b == IF r.inplace THEN data ELSE NewBuf(heap)
                      IN  /\ heap' = (b :> out) @@ heap
                          /\ data' = b
                          /\ trace' = Append(trace,
                                Ran(StageOf(fn), fn, a, out,
                                    StreamOf(fn \in DistillFns)))
                          /\ stage' = stage + 1
                          /\ UNCHANGED <<pc, op, status>>
                 ELSE /\ ItemRaise(fn)
                      /\ UNCHANGED <<heap, data, trace, stage>>
              /\ Draw(fn \in DistillFns, r.draws)
    /\ UNCHANGED <<ret, fpsVars, self, pc_local>>
    /\ SameEntry

(* data[:, 1:2] - data[:, 1:2].min(): the numerators of the height column *)
HeightColumn(v) ==
    [n \in DOMAIN v |-> v[n][2] - SetMin({v[k][2] : k \in DOMAIN v})]

(* The tensor made of the cloud a: squeezed tells that squeeze() ran (it   *)
(* leaves one dimension when the cloud has a single point), color that     *)
(* np.ones(data.shape) * 0.4 was appended, height holds the appended       *)
(* height column (<<>>: none).                                             *)
Tensor(a, squeezed, color, height) ==
    [den |-> a.den, val |-> a.val,
     ndim |-> IF squeezed /\ Len(a.val) = 1 THEN 1 ELSE 2,
     color |-> color, height |-> height]

(* lines 986 and 993 (squeeze), 995-1048: colour, height, label, caption,  *)
(* image name and text feature.  data[:, ...] raises IndexError on an      *)
(* array of one dimension; np.load may raise.                              *)
ShapeNetPack ==
    /\ pc = "sn_augment"
    /\ self.augment => stage = Len(ShapeNetPipeline(self.distill))
    /\ LET a == heap[data]
           oneD == self.augment /\ Len(a.val) = 1
           b == NewBuf(heap)
       IN  IF self.use_height /\ oneD
           THEN /\ ItemRaise("data[:, self.gravity_dim : self.gravity_dim + 1]")
                /\ self' = [self EXCEPT !.gravity_dim = 1]
                /\ UNCHANGED <<heap, data>>
           ELSE /\ self' = IF self.use_height
                           THEN [self EXCEPT !.gravity_dim = 1] ELSE self
                /\ \/ /\ self.subset = "train" /\ self.text1536
                      /\ ItemRaise("np.load")
                      /\ UNCHANGED <<heap, data>>
                   \/ /\ heap' = (b :> Tensor(a, self.augment, self.with_color,
                                     IF self.use_height
                                     THEN HeightColumn(a.val) ELSE <<>>)) @@ heap
                      /\ data' = b
                      /\ pc' = "sn_image"
                      /\ UNCHANGED <<op, status>>
    /\ UNCHANGED <<ret, npGlobal, npDistill, fpsVars, pc_local, stage, trace>>
    /\ SameEntry

(* random.randint(0, len(self.file_list) - 1) *)
RandomIndex(list) == 0..(Len(list) - 1)

(* lines 1053-1063: the Sample, every field but "pc" given as the path of  *)
(* the entry it was made from (-1: None)                                   *)
ShapeNetSampleOf(entry, tensor, train1536) ==
    [taxonomy_id |-> entry.file_path,
     model_id |-> entry.file_path,
     caption |-> entry.file_path,
     pc |-> tensor,
     image |-> entry.file_path,
     target |-> entry.file_path,
     text_feature |-> IF train1536 THEN entry.file_path ELSE -1]

(* lines 1050-1069: the image is loaded and transformed and the Sample is  *)
(* returned, or the failure is caught, another index is drawn and the loop *)
(* starts again                                                            *)
ShapeNetImage ==
    /\ pc = "sn_image"
    /\ \/ /\ rtn' = ShapeNetSampleOf(self.file_list[cur_idx + 1], heap[data],
                                     self.subset = "train" /\ self.text1536)
          /\ pc' = "returned"
          /\ status' = "ok"
          /\ UNCHANGED <<heap, ret, data, stage, trace, op, cur_idx, requested, calls, fwd, retries,
                         prev_idx, fpsVars, npGlobal, npDistill>>
       \/ /\ retries < MaxRetries
          /\ op' = "image is corrupted"
          /\ status' = "caught"
          /\ \E r \in RandomIndex(self.file_list) : cur_idx' = r
          /\ prev_idx' = cur_idx
          /\ retries' = retries + 1
          /\ pc' = "call"
          /\ heap' = <<>>
          /\ ret' = 0
          /\ data' = 0
          /\ stage' = 0
          /\ trace' = <<>>
          /\ npGlobal' = 0
          /\ npDistill' = 0
          /\ point' = 0
          /\ npoint' = 0
          /\ centroids' = <<>>
          /\ distance' = <<>>
          /\ farthest' = -1
          /\ i' = 0
          /\ input0' = <<>>
          /\ start' = -1
          /\ UNCHANGED <<rtn, requested, calls, fwd>>
    /\ UNCHANGED <<self, pc_local, batch, before, drawn>>

NextShapeNet ==
    \/ ShapeNetLoad
    \/ ShapeNetSample
    \/ FpsEnter
    \/ FpsIter
    \/ FpsReturn
    \/ ShapeNetSampled
    \/ ShapeNetNorm
    \/ ShapeNetAugment
    \/ ShapeNetPack
    \/ ShapeNetImage

SpecShapeNet == InitShapeNet /\ [][NextShapeNet]_vars

---------------------------------------------------------------------------
(* Objaverse_Lvis_Colored *)

(* config of Objaverse_Lvis_Colored.__init__: subset and                   *)
(* args.text_embed_dim == 1536                                             *)
ObjaverseConfigs ==
    {[subset |-> sub, text1536 |-> t] : sub \in {"train", "test"}, t \in BOOLEAN}

(* line 648: self.npoints = 10000, scaled to the bound of the model *)
ObjaverseNpoints == MaxNpoints

(* lines 647-694; npoints, sample_points_num and permutation are not read  *)
(* by __getitem__.  pc_text_features is set for "train" with 1536 only.    *)
Objaverse_init(config, n, o) ==
    [adapter |-> "Objaverse_Lvis_Colored",
     subset |-> config.subset,
     npoints |-> ObjaverseNpoints,
     sample_points_num |-> ObjaverseNpoints,
     permutation |-> Arange(ObjaverseNpoints),
     file_list |-> FileList(n, o),
     use_height |-> FALSE,
     use_color |-> TRUE,
     augment |-> TRUE,
     has_pc_text_features |-> (config.subset = "train" /\ config.text1536)]

InitObjaverse ==
    \E config \in ObjaverseConfigs, n \in 1..MaxFiles :
       \E index \in 0..(n - 1) :
          ItemCall(Objaverse_init(config, n, n - 1), index, <<>>)

(* lines 713-723: the cloud and its colours are loaded, the colours are    *)
(* transformed and the cloud is normalised; a failure of np.load or of     *)
(* train_transform leaves __getitem__                                      *)
ObjaverseLoad ==
    /\ pc = "call"
    /\ self.adapter = "Objaverse_Lvis_Colored"
    /\ \/ /\ \E what \in {"np.load", "train_transform"} : ItemRaise(what)
          /\ UNCHANGED <<heap, data, trace>>
       \/ LET xyz_data == IO_get(self.file_list[cur_idx + 1].file_path)
              out == Lowest(Rational(Objaverse_pc_norm(Surd(xyz_data))))
          IN  /\ heap' = (1 :> xyz_data) @@ (2 :> out)
              /\ data' = 2
              /\ trace' = <<Ran("normalize", "pc_norm", xyz_data, out, "none")>>
              /\ pc' = "ov_augment"
              /\ UNCHANGED <<op, status>>
    /\ UNCHANGED <<ret, npGlobal, npDistill, fpsVars, self, pc_local, stage>>
    /\ SameEntry

(* lines 726-730: the calls, in order *)
ObjaversePipeline ==
    <<"random_point_dropout", "random_scale_point_cloud", "shift_point_cloud",
      "rotate_perturbation_point_cloud", "rotate_point_cloud">>

(* lines 725-730: the next call of the pipeline.  The first call is given  *)
(* data[None, ...], a view of data, and the later ones the array pc; the   *)
(* result is bound to pc, never to data.                                   *)
ObjaverseAugment ==
    /\ pc = "ov_augment"
    /\ self.augment
    /\ stage < Len(ObjaversePipeline)
    /\ LET fn == ObjaversePipeline[stage + 1]
           given == IF stage = 0 THEN data ELSE pc_local
           a == heap[given]
       IN  \E r \in AugOutcomes(fn, AsBatch(a)) :
              /\ IF r.ok
                 THEN LET out == Lowest(OnlyCloud(r.out))
                          b == IF r.inplace THEN given ELSE NewBuf(heap)
                      IN  /\ heap' = (b :> out) @@ heap
                          /\ pc_local' = b
                          /\ trace' = Append(trace,
                                Ran(StageOf(fn), fn, a, out,
                                    StreamOf(fn \in DistillFns)))
                          /\ stage' = stage + 1
                          /\ UNCHANGED <<pc, op, status>>
                 ELSE /\ ItemRaise(fn)
                      /\ UNCHANGED <<heap, pc_local, trace, stage>>
              /\ Draw(fn \in DistillFns, r.draws)
    /\ UNCHANGED <<ret, fpsVars, self, data>>
    /\ SameEntry

(* lines 767-775: the Sample, every field but "pc" given as the path of    *)
(* the entry it was made from (-1: None)                                   *)
ObjaverseSampleOf(entry, tensor, train) ==
    [pc |-> tensor,
     image |-> entry.file_path,
     caption |-> entry.file_path,
     label |-> entry.file_path,
     text_feature |-> IF train THEN entry.file_path ELSE -1]

(* lines 731-775: pc.squeeze(), then the tensor is made of data; for       *)
(* "train" self.pc_text_features is read, an AttributeError when           *)
(* __init__ did not set it                                                 *)
ObjaverseReturn ==
    /\ pc = "ov_augment"
    /\ self.augment => stage = Len(ObjaversePipeline)
    /\ IF self.subset = "train" /\ ~self.has_pc_text_features
       THEN /\ ItemRaise("self.pc_text_features")
            /\ UNCHANGED rtn
       ELSE /\ rtn' = ObjaverseSampleOf(self.file_list[cur_idx + 1],
                         Tensor(heap[data], FALSE, FALSE, <<>>),
                         self.subset = "train")
            /\ pc' = "returned"
            /\ status' = "ok"
            /\ UNCHANGED op
    /\ UNCHANGED <<heap, ret, npGlobal, npDistill, fpsVars, self, data, pc_local,
                   stage, trace, cur_idx, requested, calls, fwd, retries, prev_idx, batch, before, drawn>>

---------------------------------------------------------------------------
(* ModelNet *)

(* config of ModelNet.__init__: subset, USE_NORMALS, use_height,           *)
(* use_10k_pc, with_color                                                  *)
ModelNetConfigs ==
    {[subset |-> "train", use_normals |-> FALSE, use_height |-> FALSE,
      use_10k_pc |-> FALSE, with_color |-> FALSE],
     [subset |-> "test", use_normals |-> TRUE, use_height |-> TRUE,
      use_10k_pc |-> FALSE, with_color |-> TRUE],
     [subset |-> "test", use_normals |-> FALSE, use_height |-> FALSE,
      use_10k_pc |-> TRUE, with_color |-> TRUE],
     [subset |-> "train", use_normals |-> TRUE, use_height |-> FALSE,
      use_10k_pc |-> TRUE, with_color |-> FALSE]}

(* the clouds pickle.load gives: entry k is file o + k - 1 with MaxD       *)
(* columns, held in buffer k                                               *)
StoredClouds(n, o) ==
    [k \in 1..n |-> Arr(WithFeatures(RawCloud(o + k - 1), MaxD))]

(* lines 323-468 *)
ModelNet_init(config, npoints, n, o) ==
    [adapter |-> "ModelNet",
     subset |-> config.subset,
     npoints |-> npoints,
     use_normals |-> config.use_normals,
     process_data |-> TRUE,
     uniform |-> TRUE,
     use_10k_pc |-> config.use_10k_pc,
     use_colored_pc |-> config.with_color,
     use_height |-> config.use_height,
     list_of_points |-> [k \in 1..n |-> k],
     list_of_labels |-> [k \in 1..n |-> o + k - 1],
     modelnet_10k_rgb_data |-> [k \in 1..n |-> o + k],
     gravity_dim |-> -1]

InitModelNet ==
    \E config \in ModelNetConfigs, npoints \in 1..MaxNpoints, n \in 1..MaxFiles :
       \E index \in 0..(n - 1) :
          ItemCall(ModelNet_init(config, npoints, n, n - 1), index,
                   StoredClouds(n, n - 1))

(* lines 474-488: point_set is the stored cloud itself;                    *)
(* farthest_point_sample is entered when npoints < point_set.shape[0]      *)
ModelNetSample ==
    /\ pc = "call"
    /\ self.adapter = "ModelNet"
    /\ self.process_data
    /\ LET point_set == self.list_of_points[cur_idx + 1]
       IN  /\ data' = point_set
           /\ IF self.npoints < Len(heap[point_set].val)
              THEN /\ point' = point_set
                   /\ npoint' = self.npoints
                   /\ input0' = heap[point_set].val
                   /\ pc' = "fps_call"
                   /\ UNCHANGED <<centroids, distance, farthest, i, start>>
              ELSE /\ pc' = "mn_normalize"
                   /\ UNCHANGED fpsVars
    /\ UNCHANGED <<heap, ret, npGlobal, npDistill, op, status, self, pc_local,
                   stage, trace>>
    /\ SameEntry

(* line 488: point_set = farthest_point_sample(...) has returned *)
ModelNetSampled ==
    /\ pc = "fps_done"
    /\ self.adapter = "ModelNet"
    /\ data' = ret
    /\ trace' = <<Ran("sample", "farthest_point_sample", heap[point], heap[ret],
                      "np.random")>>
    /\ pc' = "mn_normalize"
    /\ UNCHANGED <<heap, ret, npGlobal, npDistill, fpsVars, op, status, self,
                   pc_local, stage>>
    /\ SameEntry

(* point_set[:, 0:3] = xyz: the first three columns replaced in place by   *)
(* the rationals xyz; nanxyz tells that they are NaN                       *)
AssignXyz(a, xyz) ==
    IF xyz.den = 0
    THEN [den |-> a.den, nanxyz |-> TRUE,
          val |-> [n \in DOMAIN a.val |->
                     <<0, 0, 0>> \o SubSeq(a.val[n], 4, Len(a.val[n]))]]
    ELSE [den |-> a.den * xyz.den, nanxyz |-> FALSE,
          val |-> [n \in DOMAIN a.val |->
                     [c \in 1..3 |-> xyz.val[n][c] * a.den]
                        \o [c \in 1..(Len(a.val[n]) - 3) |->
                               a.val[n][c + 3] * xyz.den]]]

(* point_set[:, 0:3] *)
FirstThree(a) == [a EXCEPT !.val = Xyz(a.val)]

(* lines 490-512: the cloud is normalised in place; then the views and the *)
(* appended columns.  With use_10k_pc and use_colored_pc the result is     *)
(* the cloud of modelnet_10k_rgb_data instead.                             *)
ModelNetNormalize ==
    /\ pc = "mn_normalize"
    /\ LET a == heap[data]
           xyz == Lowest(Rational(pc_normalize(Surd([den |-> a.den, val |-> Xyz(a.val)]))))
           written == AssignXyz(a, xyz)
           viewed == IF self.use_normals THEN written ELSE FirstThree(written)
           height == IF self.use_height THEN HeightColumn(viewed.val) ELSE <<>>
           b == NewBuf(heap)
           point_set ==
               IF self.use_10k_pc /\ self.use_colored_pc
               THEN [den |-> 1, nanxyz |-> FALSE, color |-> TRUE, height |-> <<>>,
                     val |-> RawCloud(self.modelnet_10k_rgb_data[cur_idx + 1])]
               ELSE [den |-> viewed.den, nanxyz |-> viewed.nanxyz,
                     color |-> self.use_colored_pc, height |-> height,
                     val |-> viewed.val]
       IN  /\ heap' = (b :> point_set) @@ (data :> written) @@ heap
           /\ ret' = b
           /\ trace' = Append(trace, Ran("normalize", "pc_normalize", a, written, "none"))
    /\ self' = IF self.use_height THEN [self EXCEPT !.gravity_dim = 1] ELSE self
    /\ pc' = "mn_getitem"
    /\ UNCHANGED <<npGlobal, npDistill, fpsVars, op, status, data, pc_local, stage>>
    /\ SameEntry

(* points[pt_idxs]: the rows in the order pt_idxs, the height column too *)
Reordered(points, q) ==
    [points EXCEPT !.val = [t \in DOMAIN q |-> points.val[q[t] + 1]],
                   !.height = IF points.height = <<>> THEN <<>>
                              ELSE [t \in DOMAIN q |-> points.height[q[t] + 1]]]

(* lines 528-540: the Sample; "text_feature" is set for "train" only *)
ModelNetSampleOf(label, tensor, train) ==
    IF train
    THEN [pc |-> tensor, label |-> label, class_name |-> label,
          text_feature |-> label]
    ELSE [pc |-> tensor, label |-> label, class_name |-> label]

(* lines 517-540: for "train" the rows are shuffled; the rows are copied *)
ModelNetGetItem ==
    /\ pc = "mn_getitem"
    /\ LET points == heap[ret]
           pt_idxs == Arange(Len(points.val))
           train == self.subset = "train"
       IN  \E q \in (IF train THEN Shuffles(pt_idxs) ELSE {pt_idxs}) :
              /\ rtn' = ModelNetSampleOf(self.list_of_labels[cur_idx + 1],
                                         Reordered(points, q), train)
              /\ Draw(FALSE, IF train THEN ShuffleDraws(pt_idxs) ELSE 0)
    /\ pc' = "returned"
    /\ status' = "ok"
    /\ UNCHANGED <<heap, ret, fpsVars, self, data, pc_local, stage, trace, op,
                   cur_idx, requested, calls, fwd, retries, prev_idx, batch, before, drawn>>

---------------------------------------------------------------------------
(* ScanObjectNN *)

(* lines 784-840: self.data holds the clouds of the h5 file, cloud k in    *)
(* buffer k                                                                *)
ScanObjectNN_init(npoints, n, o) ==
    [adapter |-> "ScanObjectNN",
     subset |-> "test",
     npoints |-> npoints,
     data |-> [k \in 1..n |-> k],
     label |-> [k \in 1..n |-> o + k - 1]]

InitScanObjectNN ==
    \E npoints \in 1..MaxNpoints, n \in 1..MaxFiles :
       \E item \in 0..(n - 1) :
          ItemCall(ScanObjectNN_init(npoints, n, n - 1), item,
                   [k \in 1..n |-> Arr(RawCloud(n + k - 2))])

(* lines 845-858 *)
ScanObjectNNGetItem ==
    /\ pc = "call"
    /\ self.adapter = "ScanObjectNN"
    /\ rtn' = [pc |-> Tensor(heap[self.data[cur_idx + 1]], FALSE, FALSE, <<>>),
               caption |-> self.label[cur_idx + 1],
               label |-> self.label[cur_idx + 1]]
    /\ pc' = "returned"
    /\ status' = "ok"
    /\ UNCHANGED <<heap, ret, npGlobal, npDistill, fpsVars, self, data, pc_local,
                   stage, trace, op, cur_idx, requested, calls, fwd, retries, prev_idx, batch, before,
                   drawn>>

---------------------------------------------------------------------------
(* One __getitem__ call on any of the adapters *)

InitAdapters ==
    InitShapeNet \/ InitObjaverse \/ InitModelNet \/ InitScanObjectNN

NextAdapters ==
    \/ NextShapeNet
    \/ ObjaverseLoad
    \/ ObjaverseAugment
    \/ ObjaverseReturn
    \/ ModelNetSample
    \/ ModelNetSampled
    \/ ModelNetNormalize
    \/ ModelNetGetItem
    \/ ScanObjectNNGetItem

SpecAdapters == InitAdapters /\ [][NextAdapters]_vars

---------------------------------------------------------------------------
(* Properties of the adapters *)

Returned == pc = "returned"
IsShapeNet == self.adapter = "ShapeNet"
IsObjaverse == self.adapter = "Objaverse_Lvis_Colored"
IsModelNet == self.adapter = "ModelNet"

StagesRun == [k \in DOMAIN trace |-> trace[k].stage]
AugStages == {"dropout", "scale", "shift", "perturbation", "rotation"}
StageOrder ==
    <<"sample", "normalize", "dropout", "scale", "shift", "perturbation",
      "rotation">>

(* the point-cloud path of this pass of ShapeNet's loop is complete *)
ShapeNetCloudDone == IsShapeNet /\ pc \in {"sn_image", "returned"}

(* C13: in ShapeNet.__getitem__, in the default and in the distill branch, *)
(* the stages run on a cloud in the order sampling, normalisation,         *)
(* dropout, scale, shift, rotation perturbation, full rotation: the stages *)
(* run so far are always the first stages of that order, a pass that       *)
(* completes has run all seven, each stage is given the cloud the stage    *)
(* before it returned, and the tensor is made of the last stage's cloud.   *)
C13_StagesInOrder ==
    IsShapeNet =>
        /\ Len(trace) <= Len(StageOrder)
        /\ StagesRun = SubSeq(StageOrder, 1, Len(trace))
        /\ \A k \in 2..Len(trace) : trace[k].in = trace[k - 1].out
        /\ ShapeNetCloudDone =>
              /\ Len(trace) = Len(StageOrder)
              /\ heap[data].den = trace[Len(trace)].out.den
              /\ heap[data].val = trace[Len(trace)].out.val

C13_Witness ==
    /\ Returned
    /\ IsShapeNet
    /\ self.distill
    /\ retries >= 1
    /\ trace[1].fn = "farthest_point_sample"
    /\ \A k \in 2..Len(trace) : trace[k].out /= trace[k].in
    /\ rtn.pc.val = trace[7].out.val

(* C14 (as claimed): an adapter runs the augmentation pipeline on a cloud  *)
(* if and only if its split is "train"; for another split the returned     *)
(* "pc" is the normalised cloud (ShapeNet and Objaverse_Lvis_Colored).     *)
C14_AugmentIffTrain ==
    (Returned /\ (IsShapeNet \/ IsObjaverse)) =>
        /\ (\E k \in DOMAIN trace : trace[k].stage \in AugStages)
              <=> self.subset = "train"
        /\ self.subset /= "train" =>
              \E k \in DOMAIN trace :
                 /\ trace[k].stage = "normalize"
                 /\ rtn.pc.den = trace[k].out.den
                 /\ rtn.pc.val = trace[k].out.val

(* C15 (as claimed): in distill mode every draw made while "pc" is         *)
(* produced is taken from np_random: the global stream np.random is not    *)
(* advanced and no stage draws from it.                                    *)
C15_DistillStreamOnly ==
    (IsShapeNet /\ self.distill) =>
        /\ npGlobal = 0
        /\ \A k \in DOMAIN trace : trace[k].stream /= "np.random"

(* C16 (as claimed): the retries of ShapeNet.__getitem__ are bounded by    *)
(* the size of the dataset: at most len(dataset) retries are made.         *)
C16_RetriesBounded ==
    IsShapeNet => retries <= Len(self.file_list)

(* C17 (as claimed): a retry uses an index other than the one that just    *)
(* failed.                                                                 *)
C17_RetryOtherIndex ==
    (IsShapeNet /\ retries >= 1) => cur_idx /= prev_idx

(* the failures of loading a modality other than the point cloud *)
AuxiliaryFailures == {"pil_loader", "train_transform", "np.load"}

(* C18 (as claimed): in ShapeNet.__getitem__ a failure of loading the      *)
(* image, of its transform or of loading the text feature never leaves     *)
(* the call; only a failure of the point-cloud path does.                  *)
C18_AuxiliaryFailuresCaught ==
    (IsShapeNet /\ pc = "raised") => op \notin AuxiliaryFailures

(* C19 (as claimed): every Sample a labeled adapter returns has the keys   *)
(* "pc" and "label".                                                       *)
C19_PcAndLabel ==
    Returned => {"pc", "label"} \subseteq DOMAIN rtn

(* C20 (as claimed): for every raw cloud of N >= 1 points the sampling     *)
(* stage hands on exactly the configured target count and does not fail:   *)
(* in ShapeNet by farthest_point_sample when the target is below N and by  *)
(* random_sample otherwise, in ModelNet._get_item by                       *)
(* farthest_point_sample when npoints is below N.                          *)
C20_SamplingGivesTarget ==
    /\ (IsShapeNet /\ Len(trace) >= 1) =>
          Len(trace[1].out.val) = self.sample_points_num
    /\ (IsShapeNet /\ pc = "raised") => op /= "random_sample"
    /\ (IsModelNet /\ pc = "mn_normalize") =>
          Len(heap[data].val) = self.npoints

---------------------------------------------------------------------------
(* Distinctness of the indices farthest_point_sample selects *)

DistinctPositions(a) == {Xyz(a)[j] : j \in DOMAIN a}
PositionOf(t) == Xyz(input0)[centroids[t] + 1]

(* C29: when K is at most the number of distinct positions among the input *)
(* points, the selected indices refer to pairwise distinct positions (so   *)
(* they are pairwise distinct); and, for any K, an index is selected again *)
(* only after every distinct position has been selected.                   *)
C29_DistinctSelections ==
    FpsRunning =>
        /\ npoint <= Cardinality(DistinctPositions(input0)) =>
              \A s, t \in 1..i : s /= t => PositionOf(s) /= PositionOf(t)
        /\ \A t \in 2..i :
              centroids[t] \in Selected(t - 1) =>
                 {PositionOf(k) : k \in 1..(t - 1)} = DistinctPositions(input0)

C29_Witness ==
    /\ pc = "fps_done"
    /\ npoint = 2
    /\ FpsN = 3
    /\ Cardinality(DistinctPositions(input0)) = 2
    /\ Xyz(input0)[1] = Xyz(input0)[2]
    /\ start = 0
    /\ centroids = <<0, 2>>

---------------------------------------------------------------------------
(* Properties of Objaverse_Lvis_Colored.__getitem__ *)

(* C24 (as claimed): with augmentation enabled the "pc" of the returned    *)
(* Sample is the output of the last stage of the pipeline, the full        *)
(* rotation: the cloud after dropout, scale, shift, perturbation and       *)
(* rotation.                                                               *)
C24_PcIsLastStageOutput ==
    (Returned /\ IsObjaverse /\ self.augment) =>
        /\ trace[Len(trace)].stage = "rotation"
        /\ rtn.pc.den = trace[Len(trace)].out.den
        /\ rtn.pc.val = trace[Len(trace)].out.val

---------------------------------------------------------------------------
(* Properties of ModelNet *)

(* the array a holds exactly the values v *)
HoldsValues(a, v) ==
    /\ a.den /= 0
    /\ "nanxyz" \in DOMAIN a => ~a.nanxyz
    /\ DOMAIN a.val = DOMAIN v
    /\ \A n \in DOMAIN v :
          /\ DOMAIN a.val[n] = DOMAIN v[n]
          /\ \A c \in DOMAIN v[n] : a.val[n][c] = v[n][c] * a.den

(* C26 (as claimed): get calls do not alter the stored clouds: for every   *)
(* index, self.list_of_points[index] has the values it had when the        *)
(* dataset was loaded, whether or not npoints is below its point count.    *)
C26_StoredCloudsUnaltered ==
    IsModelNet =>
        \A k \in DOMAIN self.list_of_points :
            HoldsValues(heap[self.list_of_points[k]],
                        WithFeatures(RawCloud(self.list_of_labels[k]), MaxD))

---------------------------------------------------------------------------
(* self.permutation *)

(* lines 953-958 and 704-706: the index arrays self.permutation[:num] that *)
(* random_sample(pc, num) can index pc with in this state                  *)
RandomSampleIndices(s, num) ==
    {FirstNum(q, num) : q \in Shuffles(s.permutation)}

HasPermutation == self.adapter \in {"ShapeNet", "Objaverse_Lvis_Colored"}
IsPermutationOf(p, n) == Len(p) = n /\ Range(p) = 0..(n - 1)

(* C27: self.permutation contains every index 0..npoints-1 exactly once    *)
(* whatever passes through random_sample came before, so random_sample     *)
(* with num <= npoints selects num pairwise distinct row indices.          *)
C27_PermutationKept ==
    HasPermutation =>
        /\ IsPermutationOf(self.permutation, self.npoints)
        /\ \A num \in 0..self.npoints :
              \A index \in RandomSampleIndices(self, num) :
                 /\ Len(index) = num
                 /\ \A s, t \in 1..num : s /= t => index[s] /= index[t]

C27_Witness ==
    /\ Returned
    /\ IsShapeNet
    /\ retries >= 1
    /\ self.npoints = MaxNpoints
    /\ trace[1].fn = "random_sample"
    /\ self.permutation /= Arange(self.npoints)

---------------------------------------------------------------------------
(* The entry a ShapeNet Sample is made from *)

EntryFields == {"taxonomy_id", "model_id", "caption", "image", "target"}

(* C28: whatever number of retries occurred, every field of the returned   *)
(* Sample is derived from one file_list entry, the entry at the last index *)
(* tried: the fields read from the entry name it, and "pc" is the last     *)
(* stage's output of a chain of stages that began with that entry's cloud. *)
(* When the first attempt succeeds that entry is the requested one.        *)
C28_FieldsFromOneEntry ==
    (Returned /\ IsShapeNet) =>
        LET entry == self.file_list[cur_idx + 1]
        IN  /\ \A f \in EntryFields : rtn[f] = entry.file_path
            /\ rtn.text_feature \in {entry.file_path, -1}
            /\ trace[1].in = Arr(RawCloud(entry.file_path))
            /\ \A k \in 2..Len(trace) : trace[k].in = trace[k - 1].out
            /\ rtn.pc.den = trace[Len(trace)].out.den
            /\ rtn.pc.val = trace[Len(trace)].out.val
            /\ retries = 0 => cur_idx = requested

C28_Witness ==
    /\ Returned
    /\ IsShapeNet
    /\ retries = 2
    /\ cur_idx /= requested
    /\ prev_idx = requested
    /\ rtn.model_id = self.file_list[cur_idx + 1].file_path
    /\ rtn.text_feature /= -1

---------------------------------------------------------------------------
(* Two threads in ShapeNet.__getitem__ on one adapter.  A thread's steps   *)
(* are the statements that read or write an attribute of the adapter; the  *)
(* statements between them (normalisation, augmentation) work on locals.   *)
(* A thread's record: pc, its index idx, its local array data, and as      *)
(* history the attributes it has read and written.                         *)

Threads == 1..2

ThreadStart(index) ==
    [pc |-> "call", idx |-> index, data |-> <<>>, read |-> {}, wrote |-> {}]

InitTwoCalls ==
    /\ \E config \in ShapeNetConfigs, npoints \in 1..MaxNpoints, n \in 1..MaxFiles :
          /\ self = ShapeNet_init(config, npoints, n, n - 1)
          /\ calls \in [Threads -> {ThreadStart(index) : index \in 0..(n - 1)}]
    /\ pc = "threads"
    /\ fwd = <<>>
    /\ heap = <<>>
    /\ ret = 0
    /\ npGlobal = 0
    /\ npDistill = 0
    /\ op = "none"
    /\ status = "none"
    /\ cur_idx = -1
    /\ requested = -1
    /\ retries = 0
    /\ prev_idx = -1
    /\ data = 0
    /\ pc_local = 0
    /\ stage = 0
    /\ trace = <<>>
    /\ rtn = <<>>
    /\ AugIdle
    /\ FpsIdle

(* what a step of a thread leaves alone *)
ThreadFrame ==
    UNCHANGED <<heap, pc, ret, npGlobal, npDistill, fpsVars, augVars, cur_idx,
                requested, retries, prev_idx, data, pc_local, stage, trace, rtn,
                fwd>>

(* the thread c goes on to position to with the local array d, having read *)
(* the attributes r and written the attributes w                           *)
ThreadStep(c, to, d, r, w) ==
    calls' = [calls EXCEPT ![c] = [pc |-> to, idx |-> calls[c].idx, data |-> d,
                                   read |-> calls[c].read \cup r,
                                   wrote |-> calls[c].wrote \cup w]]

(* the indices farthest_point_sample selects from the rows a when it       *)
(* starts at s (lines 91-102)                                              *)
FpsIndices(a, num, s) == [t \in 1..num |-> GreedyIndex(a, s, t)]

(* lines 967-971 *)
ThreadLoad(c) ==
    /\ calls[c].pc = "call"
    /\ ThreadStep(c, "sample",
                  IO_get(self.file_list[calls[c].idx + 1].file_path).val,
                  {"file_list"}, {})
    /\ UNCHANGED self
    /\ ThreadFrame

(* lines 973-976: farthest_point_sample touches no attribute; otherwise    *)
(* random_sample is entered                                                *)
ThreadSample(c) ==
    /\ calls[c].pc = "sample"
    /\ LET a == calls[c].data
           num == self.sample_points_num
       IN  IF self.uniform /\ num < Len(a)
           THEN \E s \in 0..(Len(a) - 1) :
                   ThreadStep(c, "height", TakeRows(a, FpsIndices(a, num, s)),
                              {"uniform", "sample_points_num"}, {})
           ELSE ThreadStep(c, "shuffle", a,
                           {"uniform", "sample_points_num", "distill"}, {})
    /\ UNCHANGED self
    /\ ThreadFrame

(* lines 955 and 957: shuffle begins.  The stream's lock lets one thread   *)
(* shuffle at a time; the array is being rewritten until shuffle ends.     *)
ThreadShuffleBegin(c) ==
    /\ calls[c].pc = "shuffle"
    /\ \A d \in Threads : calls[d].pc /= "shuffling"
    /\ ThreadStep(c, "shuffling", calls[c].data, {"permutation"}, {"permutation"})
    /\ UNCHANGED self
    /\ ThreadFrame

(* lines 955 and 957: shuffle ends and has left self.permutation reordered *)
ThreadShuffleEnd(c) ==
    /\ calls[c].pc = "shuffling"
    /\ \E q \in Shuffles(self.permutation) :
          self' = [self EXCEPT !.permutation = q]
    /\ ThreadStep(c, "take", calls[c].data, {}, {})
    /\ ThreadFrame

(* what a read of self.permutation can see: the array itself, or, while    *)
(* another thread's shuffle is rewriting it, any mix of its elements       *)
Observed(c) ==
    IF \E d \in Threads \ {c} : calls[d].pc = "shuffling"
    THEN [DOMAIN self.permutation -> Range(self.permutation)]
    ELSE {self.permutation}

(* line 958: pc[self.permutation[:num]] *)
ThreadTake(c) ==
    /\ calls[c].pc = "take"
    /\ \E q \in Observed(c) :
          LET index == FirstNum(q, self.sample_points_num)
              a == calls[c].data
          IN  IF CanTakeRows(a, index)
              THEN ThreadStep(c, "height", TakeRows(a, index), {"permutation"}, {})
              ELSE ThreadStep(c, "raised", a, {"permutation"}, {})
    /\ UNCHANGED self
    /\ ThreadFrame

(* lines 999-1000: self.gravity_dim = 1 *)
ThreadSetGravity(c) ==
    /\ calls[c].pc = "height"
    /\ IF self.use_height
       THEN /\ self' = [self EXCEPT !.gravity_dim = 1]
            /\ ThreadStep(c, "read_gravity", calls[c].data,
                          {"use_height"}, {"gravity_dim"})
       ELSE /\ ThreadStep(c, "done", calls[c].data, {"use_height"}, {})
            /\ UNCHANGED self
    /\ ThreadFrame

(* lines 1001-1004: self.gravity_dim is read *)
ThreadReadGravity(c) ==
    /\ calls[c].pc = "read_gravity"
    /\ ThreadStep(c, "done", calls[c].data, {"gravity_dim"}, {})
    /\ UNCHANGED self
    /\ ThreadFrame

NextTwoCalls ==
    \E c \in Threads :
       \/ ThreadLoad(c)
       \/ ThreadSample(c)
       \/ ThreadShuffleBegin(c)
       \/ ThreadShuffleEnd(c)
       \/ ThreadTake(c)
       \/ ThreadSetGravity(c)
       \/ ThreadReadGravity(c)

SpecTwoCalls == InitTwoCalls /\ [][NextTwoCalls]_vars

(* the sampled clouds a call on entry idx can get when it runs alone *)
SequentialResults(idx) ==
    LET a == IO_get(self.file_list[idx + 1].file_path).val
        num == self.sample_points_num
    IN  IF self.uniform /\ num < Len(a)
        THEN {TakeRows(a, FpsIndices(a, num, s)) : s \in 0..(Len(a) - 1)}
        ELSE {TakeRows(a, FirstNum(q, num)) :
                 q \in {r \in Shuffles(self.permutation) :
                           CanTakeRows(a, FirstNum(r, num))}}

(* C23 (as claimed): two interleaved calls share no mutable state: no      *)
(* attribute of the adapter is written by one call and read by the other,  *)
(* and the cloud each call samples is one a sequential execution gives it. *)
C23_NoSharedMutableState ==
    calls /= <<>> =>
        /\ \A c, d \in Threads :
              c /= d => calls[c].wrote \cap calls[d].read = {}
        /\ \A c \in Threads :
              calls[c].pc \in {"height", "read_gravity", "done"} =>
                 calls[c].data \in SequentialResults(calls[c].idx)

---------------------------------------------------------------------------
(* The point encoder: PointTransformer.forward and PointTokenizer.forward  *)
(* of point_encoder.py, called on the cloud of a Sample an adapter has     *)
(* returned (a batch of one cloud).  The classes Group and Encoder come    *)
(* from dvae.py, which is not among the sources; they are modelled on      *)
(* sections 4.2 to 4.4 of the specification.  An embedding is kept as the  *)
(* record of what it was computed from.                                    *)

MaxGroups == 2      \* config.num_group
MaxGroupSize == 2   \* config.group_size

EncoderModels == {"PointTransformer", "PointTokenizer"}

EncoderConfigs ==
    {[num_group |-> G, group_size |-> S] :
        G \in 1..MaxGroups, S \in 1..MaxGroupSize}

(* a plausible slip: the two arguments of Group exchanged *)
PointEncoder_initSwapped(model, config) ==
    [model |-> model,
     num_group |-> config.num_group,
     group_size |-> config.group_size,
     group_divider |-> [num_group |-> config.group_size,
                        group_size |-> config.num_group]]

(* lines 172-184 (PointTransformer) and 301-309 (PointTokenizer) *)
PointEncoder_init(model, config) ==
    [model |-> model,
     num_group |-> config.num_group,
     group_size |-> config.group_size,
     group_divider |-> [num_group |-> config.num_group,
                        group_size |-> config.group_size]]

(* section 4.2: the t-th index farthest-point sampling selects from the    *)
(* rows a when it starts at s, the running minimum starting at +infinity   *)
RECURSIVE SpreadIndex(_, _, _)
SpreadIndex(a, s, t) ==
    IF t = 1 THEN s
    ELSE LET chosen == {SpreadIndex(a, s, k) : k \in 1..(t - 1)}
             far(j) == MinSqDist(a, j, chosen)
             best == SetMax({far(j) : j \in DOMAIN a})
         IN  SetMin({j \in DOMAIN a : far(j) = best}) - 1

(* section 4.3: the rows (1-based) of the S points nearest to the position *)
(* c, nearest first; tie tells which of two points at one distance comes   *)
(* first                                                                   *)
Nearest(a, c, S, tie) ==
    LET d(j) == SqDist(Xyz(a)[j], c)
        ahead(k, j) == IF tie = "low" THEN k < j ELSE k > j
        rank(j) == Cardinality({k \in DOMAIN a :
                                   d(k) < d(j) \/ (d(k) = d(j) /\ ahead(k, j))})
    IN  [m \in 1..S |-> CHOOSE j \in DOMAIN a : rank(j) = m - 1]

(* section 4.3: the center is subtracted from the leading 3 coordinates *)
RelativeTo(row, c) ==
    [col \in DOMAIN row |-> IF col <= 3 THEN row[col] - c[col] ELSE row[col]]

(* section 4.3: Group.forward: G centers by farthest-point sampling and,   *)
(* for each center, its S nearest points relative to it                    *)
Group(divider, a, s, tie) ==
    LET G == divider.num_group
        S == divider.group_size
        chosen == [k \in 1..G |-> SpreadIndex(a, s, k)]
        center == [k \in 1..G |-> Xyz(a)[chosen[k] + 1]]
    IN  [center |-> center,
         neighborhood |->
            [k \in 1..G |->
                LET nn == Nearest(a, center[k], S, tie)
                IN  [m \in 1..S |-> RelativeTo(a[nn[m]], center[k])]]]

(* section 4.4: Encoder.forward: one embedding per group, computed from    *)
(* the members of that group                                               *)
Encoder(neighborhood) ==
    [k \in DOMAIN neighborhood |-> [encoder |-> neighborhood[k]]]

(* line 278: nn.Linear maps each token *)
reduce_dim(tokens) == [k \in DOMAIN tokens |-> [reduce_dim |-> tokens[k]]]

(* lines 194-196 and 316-318: pos_embed maps each center *)
pos_embed(center) == [k \in DOMAIN center |-> [pos_embed |-> center[k]]]

(* lines 191-192 and 320: the learned parameters, expanded to the batch *)
cls_token == [parameter |-> "cls_token"]
cls_pos == [parameter |-> "cls_pos"]
point_cls_pos == [parameter |-> "point_cls_pos"]

(* a plausible slip: the arguments of torch.cat exchanged *)
CatSwapped(x, y) == y \o x

(* torch.cat((x, y), dim=1) *)
Cat(x, y) == x \o y

(* line 167: block(x + pos): each position's token with its embedding *)
TransformerInput(x, pos) ==
    [k \in DOMAIN x |-> [token |-> x[k], pos |-> pos[k]]]

(* the cloud of a Sample can be grouped: it is an N x C array of numbers *)
IsCloud(t) ==
    /\ t.den /= 0
    /\ "nanxyz" \in DOMAIN t => ~t.nanxyz
    /\ "ndim" \in DOMAIN t => t.ndim = 2

(* what a step of forward leaves alone *)
ForwardFrame ==
    UNCHANGED <<heap, pc, ret, npGlobal, npDistill, fpsVars, augVars, self,
                cur_idx, requested, calls, retries, prev_idx, data, pc_local,
                stage, trace, rtn>>

(* one entry of the forward's history: the callee, what it was given and   *)
(* what it returned                                                        *)
Called(fn, in, out) == [fn |-> fn, in |-> in, out |-> out]

(* the model is called on the "pc" of the Sample.  __getitem__ has         *)
(* returned: its locals are gone, and of the data loading only the name of *)
(* the adapter is kept                                                     *)
ForwardCall ==
    /\ pc = "returned"
    /\ IsCloud(rtn.pc)
    /\ \E model \in EncoderModels, config \in EncoderConfigs :
          fwd' = [self |-> PointEncoder_init(model, config),
                  at |-> "called",
                  pts |-> rtn.pc.val,
                  neighborhood |-> <<>>,
                  center |-> <<>>,
                  group_input_tokens |-> <<>>,
                  pos |-> <<>>,
                  x |-> <<>>,
                  ran |-> <<>>]
    /\ pc' = "forward"
    /\ heap' = <<>>
    /\ ret' = 0
    /\ npGlobal' = 0
    /\ npDistill' = 0
    /\ point' = 0
    /\ npoint' = 0
    /\ centroids' = <<>>
    /\ distance' = <<>>
    /\ farthest' = -1
    /\ i' = 0
    /\ input0' = <<>>
    /\ start' = -1
    /\ op' = "none"
    /\ status' = "none"
    /\ cur_idx' = -1
    /\ requested' = -1
    /\ retries' = 0
    /\ prev_idx' = -1
    /\ data' = 0
    /\ pc_local' = 0
    /\ stage' = 0
    /\ trace' = <<>>
    /\ self' = [adapter |-> self.adapter]
    /\ rtn' = <<>>
    /\ UNCHANGED <<batch, before, drawn, calls>>

(* a plausible slip: the encoder called before the grouper *)
ForwardStepsEncoderFirst ==
    <<"called", "encoded", "grouped", "embedded", "joined", "done">>

(* lines 273-296 and 358-372: the positions of forward, in the order of    *)
(* its statements: the call, then after group_divider, encoder, pos_embed, *)
(* torch.cat and the return                                                *)
ForwardSteps ==
    <<"called", "grouped", "encoded", "embedded", "joined", "done">>

(* the position a statement is reached from *)
Preceding(to) ==
    ForwardSteps[(CHOOSE k \in DOMAIN ForwardSteps : ForwardSteps[k] = to) - 1]

(* lines 275 and 360: neighborhood, center = self.group_divider(pts); the  *)
(* grouper cannot find S neighbours among fewer than S points              *)
ForwardGroup ==
    /\ pc = "forward"
    /\ fwd.at = Preceding("grouped")
    /\ IF Len(fwd.pts) < fwd.self.group_divider.group_size
       THEN fwd' = [fwd EXCEPT !.at = "raised"]
       ELSE \E s \in 0..(Len(fwd.pts) - 1), tie \in {"low", "high"} :
               LET out == Group(fwd.self.group_divider, fwd.pts, s, tie)
               IN  fwd' = [fwd EXCEPT
                             !.at = "grouped",
                             !.neighborhood = out.neighborhood,
                             !.center = out.center,
                             !.ran = Append(@, Called("group_divider",
                                                      fwd.pts, out))]
    /\ ForwardFrame

(* lines 277-278 and 363: the local patch encoder; PointTransformer        *)
(* reduces the tokens to the transformer's width                           *)
ForwardEncode ==
    /\ pc = "forward"
    /\ fwd.at = Preceding("encoded")
    /\ LET tokens == Encoder(fwd.neighborhood)
       IN  fwd' = [fwd EXCEPT
                     !.at = "encoded",
                     !.group_input_tokens =
                         IF fwd.self.model = "PointTransformer"
                         THEN reduce_dim(tokens) ELSE tokens,
                     !.ran = Append(@, Called("encoder", fwd.neighborhood,
                                              tokens))]
    /\ ForwardFrame

(* lines 283 and 367: pos = self.pos_embed(center) *)
ForwardEmbed ==
    /\ pc = "forward"
    /\ fwd.at = Preceding("embedded")
    /\ LET out == pos_embed(fwd.center)
       IN  fwd' = [fwd EXCEPT
                     !.at = "embedded",
                     !.pos = out,
                     !.ran = Append(@, Called("pos_embed", fwd.center, out))]
    /\ ForwardFrame

(* lines 285-286: the class token and its embedding are put in front;      *)
(* lines 368-369: PointTokenizer puts point_cls_pos in front of pos only   *)
ForwardJoin ==
    /\ pc = "forward"
    /\ fwd.at = Preceding("joined")
    /\ fwd' = IF fwd.self.model = "PointTransformer"
              THEN [fwd EXCEPT !.at = "joined",
                               !.x = Cat(<<cls_token>>, fwd.group_input_tokens),
                               !.pos = Cat(<<cls_pos>>, fwd.pos)]
              ELSE [fwd EXCEPT !.at = "joined",
                               !.x = fwd.group_input_tokens,
                               !.pos = Cat(<<point_cls_pos>>, fwd.pos)]
    /\ ForwardFrame

(* lines 288-296: x = self.blocks(x, pos) and the feature read from it;    *)
(* line 372: PointTokenizer returns x and pos                              *)
ForwardReturn ==
    /\ pc = "forward"
    /\ fwd.at = Preceding("done")
    /\ fwd' = [fwd EXCEPT
                 !.at = "done",
                 !.ran = IF fwd.self.model = "PointTransformer"
                         THEN Append(@, Called("blocks",
                                  TransformerInput(fwd.x, fwd.pos), <<>>))
                         ELSE @]
    /\ ForwardFrame

NextForward ==
    \/ ForwardCall
    \/ ForwardGroup
    \/ ForwardEncode
    \/ ForwardEmbed
    \/ ForwardJoin
    \/ ForwardReturn

(* an item is loaded by an adapter and given to the encoder *)
NextEncoder == NextAdapters \/ NextForward

SpecEncoder == InitAdapters /\ [][NextEncoder]_vars

---------------------------------------------------------------------------
(* Properties of the encoder's forward path *)

ForwardPositions == {"called", "grouped", "encoded", "embedded", "joined", "done"}
GroupDone == pc = "forward" /\ fwd.at \in (ForwardPositions \ {"called"})
HasDuplicates(a) == \E j, k \in DOMAIN a : j /= k /\ Xyz(a)[j] = Xyz(a)[k]
Origin == <<0, 0, 0>>

(* C22: for a cloud of N >= S points grouped into G groups of size S the   *)
(* grouper returns exactly G centers and G groups, group k made of points  *)
(* of the cloud relative to center k, nearest first; every group has       *)
(* exactly S members and the member counts add up to G * S, duplicate      *)
(* points or not.                                                          *)
C22_GroupCounts ==
    GroupDone =>
        LET G == fwd.self.num_group
            S == fwd.self.group_size
            groups == fwd.neighborhood
        IN  /\ Len(fwd.pts) >= S
            /\ Len(fwd.center) = G
            /\ Len(groups) = G
            /\ \A k \in 1..G : Len(groups[k]) = S
            /\ SumSeq([k \in 1..G |-> Len(groups[k])]) = G * S
            /\ \A k \in 1..G : \A m \in 1..S :
                  /\ \E j \in DOMAIN fwd.pts :
                        groups[k][m] = RelativeTo(fwd.pts[j], fwd.center[k])
                  /\ Cardinality({j \in DOMAIN fwd.pts :
                        SqDist(Xyz(fwd.pts)[j], fwd.center[k])
                            < SqDist(Xyz(groups[k])[m], Origin)}) <= m - 1

C22_Witness ==
    /\ GroupDone
    /\ fwd.at = "done"
    /\ fwd.self.num_group = 2
    /\ fwd.self.group_size = 2
    /\ Len(fwd.pts) = 3
    /\ HasDuplicates(fwd.pts)
    /\ fwd.center[1] /= fwd.center[2]
    /\ fwd.neighborhood[1] /= fwd.neighborhood[2]

(* the sequence given to the transformer *)
TransformerCalled ==
    /\ pc = "forward"
    /\ fwd.self.model = "PointTransformer"
    /\ fwd.at = "done"
BlocksInput == fwd.ran[Len(fwd.ran)].in

(* C25: the sequence PointTransformer.forward gives to the transformer has *)
(* length G + 1: position 0 holds the class token with the class           *)
(* positional embedding, and position i + 1 holds the token of group i     *)
(* with the positional embedding of center i.                              *)
C25_TokensAlignedWithCenters ==
    TransformerCalled =>
        LET G == fwd.self.num_group
            given == BlocksInput
        IN  /\ fwd.ran[Len(fwd.ran)].fn = "blocks"
            /\ Len(given) = G + 1
            /\ given[1] = [token |-> cls_token, pos |-> cls_pos]
            /\ \A k \in 1..G :
                  /\ given[k + 1].token =
                        [reduce_dim |-> [encoder |-> fwd.neighborhood[k]]]
                  /\ given[k + 1].pos = [pos_embed |-> fwd.center[k]]
            /\ Len(fwd.center) = G
            /\ Len(fwd.neighborhood) = G

C25_Witness ==
    /\ TransformerCalled
    /\ fwd.self.num_group = 2
    /\ fwd.center[1] /= fwd.center[2]
    /\ BlocksInput[2].pos /= BlocksInput[3].pos
    /\ BlocksInput[2].token /= BlocksInput[3].token

ForwardOrder == <<"group_divider", "encoder", "pos_embed", "blocks">>
RanFns == [k \in DOMAIN fwd.ran |-> fwd.ran[k].fn]

(* C21: grouping is deferred to the forward path.  While an adapter loads  *)
(* an item the grouper does not run; in PointTransformer.forward and       *)
(* PointTokenizer.forward the grouper runs first, on the incoming points,  *)
(* the local patch encoder then runs on the grouper's neighborhoods, and   *)
(* the positional embedding is computed from the centers the grouper       *)
(* returned in that call.                                                  *)
C21_GroupingDeferred ==
    /\ pc /= "forward" =>
          /\ fwd = <<>>
          /\ \A k \in DOMAIN trace : trace[k].fn /= "group_divider"
    /\ pc = "forward" =>
          /\ DOMAIN fwd.ran \subseteq DOMAIN ForwardOrder
          /\ RanFns = SubSeq(ForwardOrder, 1, Len(fwd.ran))
          /\ fwd.at /= "raised" =>
                Len(fwd.ran) >= (CASE fwd.at = "called" -> 0
                                   [] fwd.at = "grouped" -> 1
                                   [] fwd.at = "encoded" -> 2
                                   [] fwd.at \in {"embedded", "joined"} -> 3
                                   [] fwd.at = "done" -> 3)
          /\ Len(fwd.ran) >= 1 => fwd.ran[1].in = fwd.pts
          /\ Len(fwd.ran) >= 2 => fwd.ran[2].in = fwd.ran[1].out.neighborhood
          /\ Len(fwd.ran) >= 3 => fwd.ran[3].in = fwd.ran[1].out.center

C21_Witness ==
    /\ pc = "forward"
    /\ fwd.at = "done"
    /\ fwd.self.model = "PointTokenizer"
    /\ self.adapter = "ShapeNet"
    /\ fwd.self.num_group = 2
    /\ Len(fwd.ran) = 3
    /\ fwd.ran[3].in /= <<>>
    /\ fwd.ran[2].in /= <<>>

====
